---- MODULE Spec2Model ----
(***************************************************************************)
(* Model of the deribit-api client.                                        *)
(*                                                                         *)
(* Runtime part (src/src/lib.rs): the connection multiplexer's control     *)
(* loop, the caller-side operations call_raw / subscribe_raw and the       *)
(* streams they return.  Build-time part (src/build.rs): the generated     *)
(* channel_string() builder.                                               *)
(***************************************************************************)
EXTENDS Integers, Sequences, FiniteSets, TLC

(* ------------------------------------------------------------------ *)
(* Bounds of the model                                                 *)
(* ------------------------------------------------------------------ *)
\* ids the counter may hand out before the model stops allocating
MaxId == 2
\* notifications published on one broadcast channel (multiplexer runs)
MaxNotif == 2
\* notifications published beyond what a broadcast channel holds (lag runs)
LagExtra == 3
\* dot-separated segments of a channel template (descriptor runs)
MaxSegments == 3
\* values in a schema's enum list (enumerated-type runs)
MaxEnumValues == 2
\* schemas synthesized one after the other in one pass (type-registry runs)
MaxCalls == 2
\* fragments in an allOf list (schema-merge runs)
MaxFragments == 2

(* ------------------------------------------------------------------ *)
(* Program constants                                                   *)
(* ------------------------------------------------------------------ *)
\* mpsc::channel(100) for outbound requests
RequestQueueCapacity == 100
\* mpsc::channel(100) for subscription registrations
SubscriptionQueueCapacity == 100
\* broadcast::channel(100)
BroadcastCapacity == 100

\* the concurrent tasks sharing one client; each runs one operation
Callers == {"t1", "t2"}
Channels == {"chA", "chB"}
CallMethods == {"public/auth", "public/get_time"}

NoResult == [kind |-> "none", chans |-> <<>>]
\* JSON values a success response may carry as its result: a list of channel
\* strings, or anything else
ResultValues ==
    { [kind |-> "list", chans |-> <<>>],
      [kind |-> "list", chans |-> <<"chA">>],
      [kind |-> "list", chans |-> <<"chA", "chB">>],
      [kind |-> "other", chans |-> <<>>] }

VARIABLES
    loop,                  \* "running" | "panicked": the spawned control loop task
    id_counter,            \* Arc<AtomicU64>
    authenticated,         \* AtomicBool of the client
    request_channel,       \* mpsc queue of (RpcRequest, oneshot tx)
    subscription_channel,  \* mpsc queue of (channel, oneshot tx)
    pending_requests,      \* set of ids that are keys of the pending table
    subscribers,           \* set of channel strings that are keys of the registry
    bcast,                 \* per channel string: the broadcast channel last created for it
    ws_out,                \* requests written to the transport, in order
    pc,                    \* per caller: where its future is suspended
    op,                    \* per caller: the operation in progress
    rx,                    \* per caller: state of the oneshot it awaits
    res,                   \* per caller: what the operation returned
    stream,                \* per caller: its broadcast reader
    item,                  \* per caller: what stream.next() yielded last
    tmpl,      \* channel template of a generated descriptor, as characters
    fields,    \* the descriptor's field values, by parameter name
    built,     \* what channel_string() returned, once it has been called
    desc,      \* the fragment of the API description a type is generated from
    arg,       \* the value a generated type's operation is applied to
    ret        \* what that operation returned

rt_vars == << loop, id_counter, authenticated, request_channel, subscription_channel,
              pending_requests, subscribers, bcast, ws_out,
              pc, op, rx, res, stream, item >>
chan_vars == << tmpl, fields, built >>
type_vars == << desc, arg, ret >>
gen_vars == << chan_vars, type_vars >>
vars == << rt_vars, gen_vars >>


(* ------------------------------------------------------------------ *)
(* Values                                                              *)
(* ------------------------------------------------------------------ *)
HeartbeatTypes == {"heartbeat", "test_request"}
\* the four non-text / failing outcomes of ws_stream.next()
TransportFailures == {"bad_json", "non_text", "read_error", "closed"}

\* oneshot receiver states; `from` is the id of the response frame whose
\* handling sent the value
RxEmpty == [st |-> "empty", result |-> NoResult, from |-> 0]
RxOk(r, i) == [st |-> "ok", result |-> r, from |-> i]
RxErr(i) == [st |-> "err", result |-> NoResult, from |-> i]
RxClosed == [st |-> "closed", result |-> NoResult, from |-> 0]

\* what an operation returned to its caller
NoRes == [tag |-> "none", result |-> NoResult, chan |-> ""]
ResOk(r) == [NoRes EXCEPT !.tag = "ok", !.result = r]
ResRpcError == [NoRes EXCEPT !.tag = "rpc_error"]
ResConnectionClosed == [NoRes EXCEPT !.tag = "connection_closed"]
ResJsonError == [NoRes EXCEPT !.tag = "json_error"]
ResInvalidSubscriptionChannel(ch) == [NoRes EXCEPT !.tag = "invalid_subscription_channel", !.chan = ch]
ResStream == [NoRes EXCEPT !.tag = "stream"]

\* params as serialized: null, or an object (with the channels a subscribe request lists)
ParamsNull == [kind |-> "null", channels |-> <<>>]
ParamsObject == [kind |-> "object", channels |-> <<>>]
SubscribeParams(ch) == [kind |-> "object", channels |-> <<ch>>]

NoOp == [kind |-> "none", method |-> "", id |-> 0, chan |-> "", params |-> ParamsNull]
NoStream == [open |-> FALSE, ch |-> "", next |-> 0]
NoItem == [tag |-> "none", n |-> 0]

RpcRequest(i, m, p) == [id |-> i, method |-> m, params |-> p]

(* ------------------------------------------------------------------ *)
(* tokio::sync::broadcast as used by the registry                      *)
(* ------------------------------------------------------------------ *)
\* a channel with exactly the slots asked for
RequestedCapacity == BroadcastCapacity

RECURSIVE NextPowerOfTwoFrom(_, _)
NextPowerOfTwoFrom(p, n) == IF p >= n THEN p ELSE NextPowerOfTwoFrom(2 * p, n)
\* slots the channel created by broadcast::channel(100) really has: the
\* library rounds the requested capacity up to a power of two
EffectiveCapacity == NextPowerOfTwoFrom(1, BroadcastCapacity)

NewBroadcast == [buf |-> <<>>, pos |-> 0, closed |-> FALSE]

\* Sender::send once a receiver exists: the oldest retained value is
\* overwritten when the buffer is full
BroadcastSend(b, v) ==
    [b EXCEPT !.buf = IF Len(b.buf) < EffectiveCapacity
                      THEN Append(b.buf, v)
                      ELSE Append(Tail(b.buf), v),
              !.pos = b.pos + 1]

\* position of the oldest value the channel still holds
Oldest(b) == b.pos - Len(b.buf)

\* Sender::subscribe / the receiver returned by channel(): sees what is sent from now on
NewReader(ch, b) == [open |-> TRUE, ch |-> ch, next |-> b.pos]

\* live receivers of the channel registered for ch
ReceiverCount(ch) == Cardinality({c \in Callers : stream[c].open /\ stream[c].ch = ch})

\* BroadcastStream::poll_next mapped as in subscribe_raw: the item yielded
RecvItem(b, r) ==
    IF r.next < Oldest(b) THEN [tag |-> "lagged", n |-> Oldest(b) - r.next]
    ELSE IF r.next < b.pos THEN [tag |-> "ok", n |-> b.buf[r.next - Oldest(b) + 1]]
    ELSE [tag |-> "end", n |-> 0]
\* ... and the reader's cursor afterwards
RecvNext(b, r) ==
    IF r.next < Oldest(b) THEN Oldest(b)
    ELSE IF r.next < b.pos THEN r.next + 1
    ELSE r.next
\* the read completes: a value or a lag is there, or the sender is gone
RecvReady(b, r) == r.next < b.pos \/ b.closed


(* ------------------------------------------------------------------ *)
(* Initial state: DeribitClient::connect has returned                  *)
(* ------------------------------------------------------------------ *)
RtInit ==
    /\ loop = "running"
    /\ id_counter = 0
    /\ authenticated = FALSE
    /\ request_channel = <<>>
    /\ subscription_channel = <<>>
    /\ pending_requests = {}
    /\ subscribers = {}
    /\ bcast = [ch \in Channels |-> NewBroadcast]
    /\ ws_out = <<>>
    /\ pc = [c \in Callers |-> "idle"]
    /\ op = [c \in Callers |-> NoOp]
    /\ rx = [c \in Callers |-> RxEmpty]
    /\ res = [c \in Callers |-> NoRes]
    /\ stream = [c \in Callers |-> NoStream]
    /\ item = [c \in Callers |-> NoItem]

\* no channel descriptor in use
ChanIdle ==
    /\ tmpl = <<>>
    /\ fields = <<>>
    /\ built = [done |-> FALSE, str |-> <<>>]

\* no generated type in use
NotRun == [done |-> FALSE, val |-> <<>>]
TypeIdle ==
    /\ desc = <<>>
    /\ arg = <<>>
    /\ ret = NotRun

GenIdle == ChanIdle /\ TypeIdle

(* ------------------------------------------------------------------ *)
(* Caller side: call_raw, call, subscribe_raw                          *)
(* ------------------------------------------------------------------ *)
\* a flag set by the success of any call
AuthenticatedAfterAnyCall(auth, method) == TRUE

\* the scope subscribe_raw picks from the authenticated flag
SubscribeMethod(auth) == IF auth THEN "private/subscribe" ELSE "public/subscribe"

\* the flag after call_raw got a success value for `method`
AuthenticatedAfter(auth, method) == auth \/ method = "public/auth"

\* the last confirmed channel instead of the first
LastChannel(chans) == chans[Len(chans)]

\* subscribed_channels.first()
FirstChannel(chans) == Head(chans)

\* an acknowledgment counted as empty unless it lists several channels
FewerThanTwoConfirmed(chans) == Len(chans) < 2

\* subscribed_channels.first() is None
NoChannelConfirmed(chans) == chans = <<>>

\* an id read from the counter that another request may have read too
IdReadAgain(counter) == IF counter > 0 THEN counter - 1 ELSE 0

\* id_counter.fetch_add(1, Ordering::Relaxed): the value before the increment
next_id(counter) == counter

\* call_raw: build the request with the next id and create the oneshot
CallStart(c, m) ==
    /\ pc[c] = "idle"
    /\ id_counter < MaxId
    /\ op' = [op EXCEPT ![c] = [NoOp EXCEPT !.kind = "call", !.method = m, !.id = next_id(id_counter),
                                            !.params = ParamsObject]]
    /\ id_counter' = id_counter + 1
    /\ rx' = [rx EXCEPT ![c] = RxEmpty]
    /\ res' = [res EXCEPT ![c] = NoRes]
    /\ pc' = [pc EXCEPT ![c] = "send"]
    /\ UNCHANGED << loop, authenticated, request_channel, subscription_channel,
                    pending_requests, subscribers, bcast, ws_out, stream, item >>
    /\ UNCHANGED gen_vars

\* subscribe_raw: read the flag, then call(Public/PrivateSubscribeRequest)
SubscribeStart(c, ch) ==
    /\ pc[c] = "idle"
    /\ id_counter < MaxId
    /\ op' = [op EXCEPT ![c] = [NoOp EXCEPT !.kind = "sub",
                                            !.method = SubscribeMethod(authenticated),
                                            !.id = next_id(id_counter), !.chan = ch,
                                            !.params = SubscribeParams(ch)]]
    /\ id_counter' = id_counter + 1
    /\ rx' = [rx EXCEPT ![c] = RxEmpty]
    /\ res' = [res EXCEPT ![c] = NoRes]
    /\ pc' = [pc EXCEPT ![c] = "send"]
    /\ UNCHANGED << loop, authenticated, request_channel, subscription_channel,
                    pending_requests, subscribers, bcast, ws_out, stream, item >>
    /\ UNCHANGED gen_vars

\* request_channel.send((request, tx)).await
CallSend(c) ==
    /\ pc[c] = "send"
    /\ IF loop = "panicked"
       THEN /\ pc' = [pc EXCEPT ![c] = "done"]
            /\ res' = [res EXCEPT ![c] = ResConnectionClosed]
            /\ UNCHANGED request_channel
       ELSE /\ Len(request_channel) < RequestQueueCapacity
            /\ request_channel' = Append(request_channel,
                                         RpcRequest(op[c].id, op[c].method, op[c].params))
            /\ pc' = [pc EXCEPT ![c] = "wait"]
            /\ UNCHANGED res
    /\ UNCHANGED << loop, id_counter, authenticated, subscription_channel, pending_requests,
                    subscribers, bcast, ws_out, op, rx, stream, item >>
    /\ UNCHANGED gen_vars

\* rx.await resolves; call_raw returns; subscribe_raw goes on with the result
CallReturn(c) ==
    /\ pc[c] = "wait"
    /\ rx[c].st # "empty"
    /\ authenticated' = IF rx[c].st = "ok"
                        THEN AuthenticatedAfter(authenticated, op[c].method)
                        ELSE authenticated
    /\ CASE rx[c].st = "closed" ->
              /\ res' = [res EXCEPT ![c] = ResConnectionClosed]
              /\ pc' = [pc EXCEPT ![c] = "done"]
              /\ UNCHANGED op
         [] rx[c].st = "err" ->
              /\ res' = [res EXCEPT ![c] = ResRpcError]
              /\ pc' = [pc EXCEPT ![c] = "done"]
              /\ UNCHANGED op
         [] rx[c].st = "ok" /\ op[c].kind = "call" ->
              /\ res' = [res EXCEPT ![c] = ResOk(rx[c].result)]
              /\ pc' = [pc EXCEPT ![c] = "done"]
              /\ UNCHANGED op
         [] rx[c].st = "ok" /\ op[c].kind = "sub" /\ rx[c].result.kind # "list" ->
              /\ res' = [res EXCEPT ![c] = ResJsonError]
              /\ pc' = [pc EXCEPT ![c] = "done"]
              /\ UNCHANGED op
         [] rx[c].st = "ok" /\ op[c].kind = "sub" /\ rx[c].result.kind = "list"
                            /\ NoChannelConfirmed(rx[c].result.chans) ->
              /\ res' = [res EXCEPT ![c] = ResInvalidSubscriptionChannel(op[c].chan)]
              /\ pc' = [pc EXCEPT ![c] = "done"]
              /\ UNCHANGED op
         [] rx[c].st = "ok" /\ op[c].kind = "sub" /\ rx[c].result.kind = "list"
                            /\ ~NoChannelConfirmed(rx[c].result.chans) ->
              /\ op' = [op EXCEPT ![c].chan = FirstChannel(rx[c].result.chans)]
              /\ pc' = [pc EXCEPT ![c] = "reg_send"]
              /\ UNCHANGED res
    /\ rx' = [rx EXCEPT ![c] = RxEmpty]
    /\ UNCHANGED << loop, id_counter, request_channel, subscription_channel, pending_requests,
                    subscribers, bcast, ws_out, stream, item >>
    /\ UNCHANGED gen_vars

\* subscription_channel.send((channel.clone(), tx)).await
RegSend(c) ==
    /\ pc[c] = "reg_send"
    /\ IF loop = "panicked"
       THEN /\ pc' = [pc EXCEPT ![c] = "done"]
            /\ res' = [res EXCEPT ![c] = ResConnectionClosed]
            /\ UNCHANGED << subscription_channel, rx >>
       ELSE /\ Len(subscription_channel) < SubscriptionQueueCapacity
            /\ subscription_channel' = Append(subscription_channel,
                                              [channel |-> op[c].chan, tok |-> op[c].id])
            /\ rx' = [rx EXCEPT ![c] = RxEmpty]
            /\ pc' = [pc EXCEPT ![c] = "reg_wait"]
            /\ UNCHANGED res
    /\ UNCHANGED << loop, id_counter, authenticated, request_channel, pending_requests,
                    subscribers, bcast, ws_out, op, stream, item >>
    /\ UNCHANGED gen_vars

\* the reader arrives (or its oneshot was dropped); subscribe_raw returns
SubscribeReturn(c) ==
    /\ pc[c] = "reg_wait"
    /\ rx[c].st # "empty"
    /\ IF rx[c].st = "ok"
       THEN /\ res' = [res EXCEPT ![c] = ResStream]
            /\ pc' = [pc EXCEPT ![c] = "streaming"]
       ELSE /\ res' = [res EXCEPT ![c] = ResConnectionClosed]
            /\ pc' = [pc EXCEPT ![c] = "done"]
    /\ rx' = [rx EXCEPT ![c] = RxEmpty]
    /\ UNCHANGED << loop, id_counter, authenticated, request_channel, subscription_channel,
                    pending_requests, subscribers, bcast, ws_out, op,
                    stream, item >>
    /\ UNCHANGED gen_vars

\* stream.next().await on the stream subscribe_raw returned
StreamNext(c) ==
    /\ pc[c] = "streaming"
    /\ item[c].tag # "end"
    /\ RecvReady(bcast[stream[c].ch], stream[c])
    /\ item' = [item EXCEPT ![c] = RecvItem(bcast[stream[c].ch], stream[c])]
    /\ stream' = [stream EXCEPT ![c].next = RecvNext(bcast[stream[c].ch], stream[c])]
    /\ UNCHANGED << loop, id_counter, authenticated, request_channel, subscription_channel,
                    pending_requests, subscribers, bcast, ws_out, pc, op, rx, res >>
    /\ UNCHANGED gen_vars

\* a caller that takes its entry out of the table when it gives up
EvictedOnDrop(pend, i) == pend \ {i}

\* the pending table after a caller dropped the future of request i: the
\* caller holds no reference to the table, the entry stays
AfterDrop(pend, i) == pend

\* the caller drops its future, its result or its stream
Drop(c) ==
    /\ pc[c] \notin {"idle", "dropped"}
    /\ pc' = [pc EXCEPT ![c] = "dropped"]
    /\ op' = [op EXCEPT ![c] = NoOp]
    /\ rx' = [rx EXCEPT ![c] = RxEmpty]
    /\ res' = [res EXCEPT ![c] = NoRes]
    /\ stream' = [stream EXCEPT ![c] = NoStream]
    /\ item' = [item EXCEPT ![c] = NoItem]
    /\ pending_requests' = AfterDrop(pending_requests, op[c].id)
    /\ UNCHANGED << loop, id_counter, authenticated, request_channel, subscription_channel,
                    subscribers, bcast, ws_out >>
    /\ UNCHANGED gen_vars


(* ------------------------------------------------------------------ *)
(* The control loop spawned by connect                                 *)
(* ------------------------------------------------------------------ *)
\* a loop whose end leaves the oneshot senders alive
PanickedKeepsSender(r) == r

\* a panic unwinds the task: its receivers, the pending table (the oneshot
\* senders in it and in the queued messages) and the registry (the broadcast
\* senders) are dropped
Panicked(r) == IF r.st = "empty" THEN RxClosed ELSE r

Panic ==
    /\ loop' = "panicked"
    /\ request_channel' = <<>>
    /\ subscription_channel' = <<>>
    /\ pending_requests' = {}
    /\ subscribers' = {}
    /\ bcast' = [ch \in Channels |-> [bcast[ch] EXCEPT !.closed = TRUE]]
    /\ rx' = [c \in Callers |->
                IF pc[c] \in {"wait", "reg_wait"} THEN Panicked(rx[c]) ELSE rx[c]]

\* the request the loop writes on a test_request heartbeat
TestRequest(i) == RpcRequest(i, "public/test", ParamsNull)

\* Ok(JsonRPCMessage::Heartbeat(heartbeat))
RecvHeartbeat(t, wrote) ==
    /\ loop = "running"
    /\ IF t = "test_request"
       THEN /\ id_counter < MaxId
            /\ id_counter' = id_counter + 1
            /\ IF wrote
               THEN /\ ws_out' = Append(ws_out, TestRequest(next_id(id_counter)))
                    /\ UNCHANGED << loop, request_channel, subscription_channel,
                                    pending_requests, subscribers, bcast, rx >>
               ELSE /\ Panic
                    /\ UNCHANGED ws_out
       ELSE /\ wrote
            /\ UNCHANGED << loop, id_counter, request_channel, subscription_channel,
                            pending_requests, subscribers, bcast, rx, ws_out >>
    /\ UNCHANGED << authenticated, pc, op, res, stream, item >>
    /\ UNCHANGED gen_vars

\* a publication taken to fail whoever listens
SendAlwaysFails(ch) == TRUE

\* tx.send(..).is_err(): the channel has no live receiver
SendFails(ch) == ReceiverCount(ch) = 0

\* a failed publication that leaves the entry where it is
EntryKept(subs, ch) == subs

\* subscribers.remove(&notification.params.channel)
EntryDropped(subs, ch) == subs \ {ch}

\* Ok(JsonRPCMessage::Notification(notification)).  The loop never looks into
\* the payload, so a payload is named by its place in the channel's publications.
RecvNotification(ch, limit) ==
    /\ loop = "running"
    /\ IF ch \in subscribers
       THEN IF SendFails(ch)
            THEN /\ subscribers' = EntryDropped(subscribers, ch)
                 /\ UNCHANGED bcast
            ELSE /\ bcast[ch].pos < limit
                 /\ bcast' = [bcast EXCEPT ![ch] = BroadcastSend(bcast[ch], bcast[ch].pos + 1)]
                 /\ UNCHANGED subscribers
       ELSE UNCHANGED << subscribers, bcast >>
    /\ UNCHANGED << loop, id_counter, authenticated, request_channel, subscription_channel,
                    pending_requests, ws_out, pc, op, rx, res, stream, item >>
    /\ UNCHANGED gen_vars

\* a table that answers the oldest entry, whatever id the response carries
RemovedOldest(pend, i) ==
    IF pend = {} THEN {} ELSE {CHOOSE j \in pend : \A k \in pend : j <= k}

\* pending_requests.remove(&response.base.id): the entries taken out
Removed(pend, i) == IF i \in pend THEN {i} ELSE {}

\* a loop that hands a response to every waiting caller
FulfilEveryone(ids, v) ==
    [c \in Callers |->
        IF pc[c] = "wait" /\ ids # {} /\ rx[c].st = "empty" THEN v ELSE rx[c]]

\* tx.send(result) on the removed entries: the callers still awaiting them
Fulfil(ids, v) ==
    [c \in Callers |->
        IF pc[c] = "wait" /\ op[c].id \in ids /\ rx[c].st = "empty" THEN v ELSE rx[c]]

\* Ok(JsonRPCMessage::OkResponse(response))
RecvOkResponse(i, r) ==
    /\ loop = "running"
    /\ pending_requests' = pending_requests \ Removed(pending_requests, i)
    /\ rx' = Fulfil(Removed(pending_requests, i), RxOk(r, i))
    /\ UNCHANGED << loop, id_counter, authenticated, request_channel, subscription_channel,
                    subscribers, bcast, ws_out, pc, op, res, stream, item >>
    /\ UNCHANGED gen_vars

\* Ok(JsonRPCMessage::ErrorResponse(response))
RecvErrorResponse(i) ==
    /\ loop = "running"
    /\ pending_requests' = pending_requests \ Removed(pending_requests, i)
    /\ rx' = Fulfil(Removed(pending_requests, i), RxErr(i))
    /\ UNCHANGED << loop, id_counter, authenticated, request_channel, subscription_channel,
                    subscribers, bcast, ws_out, pc, op, res, stream, item >>
    /\ UNCHANGED gen_vars

\* undecodable text, a non-text frame, a read error or the end of the stream
TransportFail(t) ==
    /\ loop = "running"
    /\ Panic
    /\ UNCHANGED << id_counter, authenticated, ws_out, pc, op, res, stream, item >>
    /\ UNCHANGED gen_vars

\* a loop that writes requests without keeping their handles
NotInserted(pend, i) == pend

\* pending_requests.insert(request.id, tx)
Inserted(pend, i) == pend \cup {i}

\* Some((request, tx)) = request_rx.recv()
TakeRequest(wrote) ==
    /\ loop = "running"
    /\ request_channel # <<>>
    /\ IF wrote
       THEN /\ pending_requests' = Inserted(pending_requests, Head(request_channel).id)
            /\ request_channel' = Tail(request_channel)
            /\ ws_out' = Append(ws_out, Head(request_channel))
            /\ UNCHANGED << loop, subscription_channel, subscribers, bcast, rx >>
       ELSE /\ Panic
            /\ UNCHANGED ws_out
    /\ UNCHANGED << id_counter, authenticated, pc, op, res, stream, item >>
    /\ UNCHANGED gen_vars

\* subscribers.insert(channel, broadcast_tx), or the entry already there
EntryStored(subs, ch) == subs \cup {ch}

\* a registration that always creates a channel and replaces the stored sender
AlwaysNewBroadcast(ch) == NewBroadcast

\* subscribers.get(&channel), else broadcast::channel(100): the channel registered
RegisteredBroadcast(ch) == IF ch \in subscribers THEN bcast[ch] ELSE NewBroadcast

\* Some((channel, oneshot_tx)) = subscription_rx.recv()
Register ==
    /\ loop = "running"
    /\ subscription_channel # <<>>
    /\ LET reg == Head(subscription_channel)
           ch == reg.channel
           b == RegisteredBroadcast(ch)
           waiting == {c \in Callers : pc[c] = "reg_wait" /\ op[c].id = reg.tok
                                         /\ rx[c].st = "empty"}
       IN /\ subscription_channel' = Tail(subscription_channel)
          /\ subscribers' = EntryStored(subscribers, ch)
          /\ bcast' = [bcast EXCEPT ![ch] = b]
          /\ stream' = [c \in Callers |-> IF c \in waiting THEN NewReader(ch, b) ELSE stream[c]]
          /\ rx' = [c \in Callers |-> IF c \in waiting THEN RxOk(NoResult, reg.tok) ELSE rx[c]]
    /\ UNCHANGED << loop, id_counter, authenticated, request_channel, pending_requests,
                    ws_out, pc, op, res, item >>
    /\ UNCHANGED gen_vars

(* ------------------------------------------------------------------ *)
(* The multiplexer specification                                       *)
(* ------------------------------------------------------------------ *)
Init == RtInit /\ GenIdle

Next ==
    \/ \E c \in Callers, m \in CallMethods : CallStart(c, m)
    \/ \E c \in Callers, ch \in Channels : SubscribeStart(c, ch)
    \/ \E c \in Callers : CallSend(c)
    \/ \E c \in Callers : CallReturn(c)
    \/ \E c \in Callers : RegSend(c)
    \/ \E c \in Callers : SubscribeReturn(c)
    \/ \E c \in Callers : StreamNext(c)
    \/ \E c \in Callers : Drop(c)
    \/ \E t \in HeartbeatTypes, wrote \in BOOLEAN : RecvHeartbeat(t, wrote)
    \/ \E ch \in Channels : RecvNotification(ch, MaxNotif)
    \/ \E i \in 0..(id_counter - 1), r \in ResultValues : RecvOkResponse(i, r)
    \/ \E i \in 0..(id_counter - 1) : RecvErrorResponse(i)
    \/ \E t \in TransportFailures : TransportFail(t)
    \/ \E wrote \in BOOLEAN : TakeRequest(wrote)
    \/ Register

Spec == Init /\ [][Next]_vars


(* ------------------------------------------------------------------ *)
(* Helpers of the properties                                           *)
(* ------------------------------------------------------------------ *)
\* place of the request with id i in what was written to the transport (0: not written)
WrittenAt(i) ==
    IF \E k \in DOMAIN ws_out : ws_out[k].id = i
    THEN CHOOSE k \in DOMAIN ws_out : ws_out[k].id = i
    ELSE 0

\* callers whose oneshot receives a value in this step
Resolved(st) == {c \in Callers : pc[c] = "wait" /\ rx[c].st = "empty" /\ rx'[c].st = st}

\* callers whose call returns in this step
Returning == {c \in Callers : pc[c] = "wait" /\ pc'[c] \in {"done", "reg_send"}}

(* ------------------------------------------------------------------ *)
(* C1: with several calls in flight and the replies in any order, a    *)
(* call is resolved only by the response that carries its own request  *)
(* id, and call_raw returns what that response carried.                *)
(* ------------------------------------------------------------------ *)
C1_RoutedById ==
    [][ /\ \A c \in Resolved("ok") \cup Resolved("err") : rx'[c].from = op[c].id
        /\ \A c \in Returning :
              /\ rx[c].st \in {"ok", "err"} => rx[c].from = op[c].id
              /\ rx[c].st = "ok" /\ op[c].kind = "call" => res'[c] = ResOk(rx[c].result)
              /\ rx[c].st = "err" => res'[c] = ResRpcError ]_vars

\* t1's request was written after t2's and t1 has its own result while t2 still waits
C1_Witness ==
    /\ pc["t1"] = "done" /\ res["t1"].tag = "ok"
    /\ pc["t2"] = "wait" /\ rx["t2"].st = "empty" /\ op["t2"].id \in pending_requests
    /\ WrittenAt(op["t2"].id) > 0
    /\ WrittenAt(op["t1"].id) > WrittenAt(op["t2"].id)

(* ------------------------------------------------------------------ *)
(* C2: an error response reaches only the call whose request id is the *)
(* response's id, as an RPC error; the other pending calls, the        *)
(* registry and the loop are untouched and nothing is written again.   *)
(* ------------------------------------------------------------------ *)
C2_ErrorOnlyToItsCall ==
    [][ /\ Resolved("err") # {} =>
              /\ \A c \in Resolved("err") : rx'[c].from = op[c].id
              /\ \A c \in Callers \ Resolved("err") : rx'[c] = rx[c]
              /\ pending_requests' = pending_requests \ {op[c].id : c \in Resolved("err")}
              /\ subscribers' = subscribers /\ bcast' = bcast
              /\ loop' = loop /\ ws_out' = ws_out /\ request_channel' = request_channel
        /\ \A c \in Returning : rx[c].st = "err" => res'[c] = ResRpcError
        /\ \A j, k \in DOMAIN ws_out : j # k => ws_out[j].id # ws_out[k].id ]_vars

\* t1's call got the error while t2's call is still pending
C2_Witness ==
    /\ pc["t1"] = "wait" /\ rx["t1"].st = "err"
    /\ pc["t2"] = "wait" /\ rx["t2"].st = "empty" /\ op["t2"].id \in pending_requests

(* ------------------------------------------------------------------ *)
(* C3 as stated: after a transport failure the calls that were pending *)
(* never return and the streams yield nothing more and do not end.     *)
(* ------------------------------------------------------------------ *)
C3_StrandedForever ==
    [][ loop = "panicked" =>
          \A c \in Callers :
              /\ pc[c] \in {"wait", "reg_wait"} /\ rx[c].st \notin {"ok", "err"}
                    => pc'[c] \in {pc[c], "dropped"}
              /\ pc[c] = "streaming" => item'[c] = item[c] ]_vars

(* ------------------------------------------------------------------ *)
(* C3 amended: when the transport fails the loop terminates and drops  *)
(* the pending table and the registry; every call still pending is     *)
(* resolved with the connection-closed error and every stream is ready *)
(* to yield what its channel retained and then to end.  The            *)
(* connection-closed error is returned only after the loop has ended.  *)
(* ------------------------------------------------------------------ *)
C3_FailureClosesWaiters ==
    /\ loop = "panicked" =>
          /\ pending_requests = {} /\ subscribers = {}
          /\ \A c \in Callers :
                /\ pc[c] \in {"wait", "reg_wait"} => rx[c].st # "empty"
                /\ pc[c] = "streaming" /\ item[c].tag # "end"
                      => RecvReady(bcast[stream[c].ch], stream[c])
    /\ \A c \in Callers :
          /\ rx[c].st = "closed" => loop = "panicked"
          /\ res[c].tag = "connection_closed" => loop = "panicked"

\* a call whose request had been written returned the connection-closed
\* error, and a stream has ended
C3_Witness ==
    /\ loop = "panicked"
    /\ pc["t1"] = "done" /\ res["t1"].tag = "connection_closed"
    /\ WrittenAt(op["t1"].id) > 0
    /\ pc["t2"] = "streaming" /\ item["t2"].tag = "end"

(* ------------------------------------------------------------------ *)
(* C4: on a test_request heartbeat the loop writes, in the same        *)
(* iteration, one public/test request with a fresh id and empty params *)
(* given as an object, and creates no pending entry.                   *)
(* ------------------------------------------------------------------ *)
C4_HeartbeatReply ==
    [][ id_counter' # id_counter /\ op' = op /\ loop' = "running" =>
          /\ ws_out' = Append(ws_out, RpcRequest(id_counter, "public/test", ParamsObject))
          /\ \A k \in DOMAIN ws_out : ws_out[k].id # id_counter
          /\ pending_requests' = pending_requests ]_vars


(* ------------------------------------------------------------------ *)
(* C5: once several subscribers hold readers for one channel string,   *)
(* every notification the loop publishes on it lies ahead of each of   *)
(* their cursors, and a reader yields the publications one after the   *)
(* other: it skips items only through a lag notice and its stream does *)
(* not end while the loop runs.                                        *)
(* ------------------------------------------------------------------ *)
ReadersOf(ch) == {c \in Callers : stream[c].open /\ stream[c].ch = ch}

C5_DeliveredToEveryReader ==
    [][ /\ \A ch \in Channels :
              bcast'[ch].pos = bcast[ch].pos + 1 =>
                 /\ bcast'[ch].buf[Len(bcast'[ch].buf)] = bcast[ch].pos + 1
                 /\ \A c \in ReadersOf(ch) :
                       stream[c].next <= bcast[ch].pos /\ stream'[c] = stream[c]
        /\ \A c \in Callers :
              pc[c] = "streaming" /\ pc'[c] = "streaming" /\ stream'[c] # stream[c] =>
                 \/ item'[c] = [tag |-> "ok", n |-> stream[c].next + 1]
                       /\ stream'[c].next = stream[c].next + 1
                 \/ item'[c].tag = "lagged"
                       /\ stream'[c].next = stream[c].next + item'[c].n
        /\ \A c \in Callers :
              pc[c] = "streaming" /\ item'[c].tag = "end" /\ item[c].tag # "end" =>
                 loop = "panicked" /\ stream[c].next = bcast[stream[c].ch].pos ]_vars

\* both tasks read the same channel and each has been handed the second publication
C5_Witness ==
    /\ pc["t1"] = "streaming" /\ pc["t2"] = "streaming"
    /\ stream["t1"].ch = stream["t2"].ch
    /\ item["t1"] = [tag |-> "ok", n |-> 2]
    /\ item["t2"] = [tag |-> "ok", n |-> 2]


(* ------------------------------------------------------------------ *)
(* C7: subscribe_raw asks in public scope while no public/auth call    *)
(* has returned a success, and in private scope once one has; a        *)
(* public/auth call that fails or does not return leaves the scope     *)
(* alone, and the scope never goes back to public.                     *)
(* ------------------------------------------------------------------ *)
AuthSucceeds(c) ==
    c \in Returning /\ op[c].method = "public/auth" /\ rx[c].st = "ok"

C7_ScopeFollowsAuthentication ==
    [][ /\ authenticated' # authenticated =>
              authenticated' /\ \E c \in Callers : AuthSucceeds(c)
        /\ \A c \in Callers : AuthSucceeds(c) => authenticated'
        /\ \A c \in Callers :
              pc[c] = "idle" /\ op'[c].kind = "sub" =>
                 op'[c].method = IF authenticated THEN "private/subscribe"
                                                  ELSE "public/subscribe"
        /\ \A c \in Callers :
              pc[c] = "done" /\ op[c].method = "public/auth" /\ res[c].tag = "ok"
                 => authenticated ]_vars

\* t1's public/auth call has returned a success and t2's subscribe went out in private scope
C7_Witness ==
    /\ pc["t1"] = "done" /\ op["t1"].method = "public/auth" /\ res["t1"].tag = "ok"
    /\ op["t2"].kind = "sub" /\ WrittenAt(op["t2"].id) > 0
    /\ ws_out[WrittenAt(op["t2"].id)].method = "private/subscribe"

(* ------------------------------------------------------------------ *)
(* C8: when the subscribe call succeeded, subscribe_raw hands the loop *)
(* one registration request, for the first channel string of the       *)
(* result; on an empty result it returns the invalid-subscription      *)
(* error, sends no registration and leaves the registry as it is.      *)
(* ------------------------------------------------------------------ *)
Acknowledged(c) ==
    c \in Returning /\ op[c].kind = "sub" /\ rx[c].st = "ok" /\ rx[c].result.kind = "list"

C8_RegistersFirstConfirmed ==
    [][ /\ \A c \in Callers :
              Acknowledged(c) =>
                 IF rx[c].result.chans = <<>>
                 THEN /\ pc'[c] = "done"
                      /\ res'[c].tag = "invalid_subscription_channel"
                      /\ subscription_channel' = subscription_channel
                      /\ subscribers' = subscribers
                 ELSE /\ pc'[c] = "reg_send"
                      /\ op'[c].chan = rx[c].result.chans[1]
        /\ \A c \in Callers :
              pc[c] = "reg_send" /\ pc'[c] = "reg_wait" =>
                 subscription_channel' =
                     Append(subscription_channel, [channel |-> op[c].chan, tok |-> op[c].id])
        /\ Len(subscription_channel') > Len(subscription_channel) =>
              \E c \in Callers : pc[c] = "reg_send" /\ pc'[c] = "reg_wait"
        /\ \A j, k \in DOMAIN subscription_channel :
              j # k => subscription_channel[j].tok # subscription_channel[k].tok
        /\ \A c \in Callers, k \in DOMAIN subscription_channel :
              subscription_channel[k].tok = op[c].id /\ op[c].kind # "none"
                 => pc[c] = "reg_wait" ]_vars

\* t1 got the invalid-subscription error; t2, acknowledged with <<chA, chB>>,
\* has exactly its registration for chA in the queue
C8_Witness ==
    /\ pc["t1"] = "done" /\ res["t1"].tag = "invalid_subscription_channel"
    /\ pc["t2"] = "reg_wait"
    /\ subscription_channel = << [channel |-> "chA", tok |-> op["t2"].id] >>
    /\ subscribers = {}

(* ------------------------------------------------------------------ *)
(* C9 as stated: an acknowledgment that does not list the requested    *)
(* channel makes subscribe_raw return the invalid-subscription error.  *)
(* ------------------------------------------------------------------ *)
Listed(chans) == {chans[k] : k \in DOMAIN chans}

C9_ErrorUnlessRequestedConfirmed ==
    [][ \A c \in Callers :
           Acknowledged(c) /\ op[c].chan \notin Listed(rx[c].result.chans) =>
              pc'[c] = "done" /\ res'[c].tag = "invalid_subscription_channel" ]_vars

(* ------------------------------------------------------------------ *)
(* C9 amended: subscribe_raw returns the invalid-subscription error,   *)
(* naming the requested channel, exactly when the acknowledgment is an *)
(* empty list; a non-empty acknowledgment that lists only other        *)
(* channels is no error: subscribe_raw goes on to register for its     *)
(* first channel.                                                      *)
(* ------------------------------------------------------------------ *)
C9_ErrorOnlyOnEmptyAcknowledgment ==
    [][ \A c \in Callers :
           /\ Acknowledged(c) =>
                 /\ res'[c].tag = "invalid_subscription_channel"
                       <=> rx[c].result.chans = <<>>
                 /\ rx[c].result.chans = <<>>
                       => res'[c] = ResInvalidSubscriptionChannel(op[c].chan)
                 /\ rx[c].result.chans # <<>> /\ op[c].chan \notin Listed(rx[c].result.chans)
                       => pc'[c] = "reg_send" /\ res'[c].tag = "none"
           /\ res'[c].tag = "invalid_subscription_channel" /\ res[c].tag = "none"
                 => Acknowledged(c) ]_vars

\* t1 asked for chB, was acknowledged with another channel and reads chA;
\* t2 was acknowledged with nothing and holds the error naming what it asked for
C9_Witness ==
    /\ pc["t1"] = "streaming" /\ stream["t1"].ch = "chA"
    /\ WrittenAt(op["t1"].id) > 0
    /\ ws_out[WrittenAt(op["t1"].id)].params.channels = <<"chB">>
    /\ pc["t2"] = "done" /\ res["t2"] = ResInvalidSubscriptionChannel("chB")


(* ------------------------------------------------------------------ *)
(* Lag runs: one task subscribes to one channel and the server sends   *)
(* more notifications than the broadcast channel holds                 *)
(* ------------------------------------------------------------------ *)
LagReader == "t1"
LagChannel == "chA"
LagLimit == EffectiveCapacity + LagExtra
LagAcknowledgment == [kind |-> "list", chans |-> <<LagChannel>>]

NextLag ==
    \/ SubscribeStart(LagReader, LagChannel)
    \/ CallSend(LagReader)
    \/ TakeRequest(TRUE)
    \/ \E i \in 0..(id_counter - 1) : RecvOkResponse(i, LagAcknowledgment)
    \/ CallReturn(LagReader)
    \/ RegSend(LagReader)
    \/ Register
    \/ SubscribeReturn(LagReader)
    \/ RecvNotification(LagChannel, LagLimit)
    \/ StreamNext(LagReader)
    \/ TransportFail("closed")

SpecLag == Init /\ [][NextLag]_vars

\* notifications published on the reader's channel that it has not read yet
Unread(c) == bcast[stream[c].ch].pos - stream[c].next

\* the reader completes a read in this step
Reads(c) == pc[c] = "streaming" /\ pc'[c] = "streaming" /\ item[c].tag # "end"
            /\ (stream'[c] # stream[c] \/ item'[c] # item[c])

(* ------------------------------------------------------------------ *)
(* C6 as stated: with more than the requested capacity of 100          *)
(* notifications unread, the next read yields the lag error.           *)
(* ------------------------------------------------------------------ *)
C6_LagBeyondRequestedCapacity ==
    [][ \A c \in Callers :
           Reads(c) /\ Unread(c) > BroadcastCapacity => item'[c].tag = "lagged" ]_vars

(* ------------------------------------------------------------------ *)
(* C6 amended: the channel holds 128 items (the requested 100 rounded  *)
(* up to a power of two).  A read with more than 128 notifications     *)
(* unread yields one lag error carrying the number of items skipped,   *)
(* which is the unread count minus 128, and moves the reader to the    *)
(* oldest retained item; a read with 1 to 128 unread yields the next   *)
(* publication.  The stream does not end on a lag: the reads after it  *)
(* yield the retained and the newly published items in publication     *)
(* order.                                                              *)
(* ------------------------------------------------------------------ *)
C6_LagBeyondChannelSlots ==
    [][ \A c \in Callers :
           Reads(c) =>
              /\ Unread(c) > 128 =>
                    /\ item'[c] = [tag |-> "lagged", n |-> Unread(c) - 128]
                    /\ stream'[c].next = stream[c].next + (Unread(c) - 128)
                    /\ stream'[c].open
              /\ Unread(c) \in 1..128 =>
                    /\ item'[c] = [tag |-> "ok", n |-> stream[c].next + 1]
                    /\ stream'[c].next = stream[c].next + 1
              /\ item[c].tag = "lagged" => item'[c].tag \in {"ok", "lagged"}
              /\ item'[c].tag = "end" => Unread(c) = 0 /\ loop = "panicked" ]_vars

\* the reader, 131 notifications behind, has been told that it skipped 3 and
\* its next read yields the fourth publication
C6_Witness ==
    /\ pc[LagReader] = "streaming"
    /\ item[LagReader] = [tag |-> "lagged", n |-> 3]
    /\ bcast[LagChannel].pos = 131
    /\ stream[LagReader].next = 3
    /\ RecvItem(bcast[LagChannel], stream[LagReader]) = [tag |-> "ok", n |-> 4]


(* ------------------------------------------------------------------ *)
(* Generated channel descriptors (build.rs) and channel_string()       *)
(* Text is a sequence of one-character strings.                        *)
(* ------------------------------------------------------------------ *)
\* the letters used in names, lowercase with uppercase
LetterPairs == { <<"a", "A">>, <<"b", "B">>, <<"c", "C">>, <<"r", "R">>,
                 <<"s", "S">>, <<"t", "T">> }
UpperChars == { pair[2] : pair \in LetterPairs }
LowerChars == { pair[1] : pair \in LetterPairs }
DigitChars == {"0", "1", "2", "3", "4", "5", "6", "7", "8", "9"}
ToLowercase(ch) ==
    IF ch \in UpperChars THEN (CHOOSE pair \in LetterPairs : pair[2] = ch)[1] ELSE ch
ToUppercase(ch) ==
    IF ch \in LowerChars THEN (CHOOSE pair \in LetterPairs : pair[1] = ch)[2] ELSE ch

\* to_snake_case: an all-capitals name is lowercased; otherwise every
\* capital becomes '_' (unless first) followed by its lowercase
RECURSIVE SnakePush(_, _)
SnakePush(name, result) ==
    IF name = <<>> THEN result
    ELSE LET ch == Head(name) IN
         IF ch \in UpperChars
         THEN SnakePush(Tail(name),
                        (IF result # <<>> THEN Append(result, "_") ELSE result)
                           \o <<ToLowercase(ch)>>)
         ELSE SnakePush(Tail(name), Append(result, ch))

to_snake_case(name) ==
    IF \A k \in 1..Len(name) :
          name[k] \in UpperChars \/ name[k] \notin (UpperChars \cup LowerChars)
    THEN [k \in 1..Len(name) |-> ToLowercase(name[k])]
    ELSE SnakePush(name, <<>>)

sanitize_ident(name) ==
    LET out == [k \in 1..Len(name) |->
                   IF name[k] \in UpperChars \cup LowerChars \cup DigitChars \cup {"_"}
                   THEN name[k] ELSE "_"]
    IN  IF out = <<>> THEN <<"_">>
        ELSE IF out[1] \in DigitChars THEN <<"_">> \o out
        ELSE out

\* the keywords that can be spelled with the letters above
Keywords == { <<"a", "s">> }
escape_rust_keyword(name) == IF name \in Keywords THEN <<"r", "#">> \o name ELSE name

to_valid_snake_case(name) == escape_rust_keyword(sanitize_ident(to_snake_case(name)))

\* the parameters a channel declares; each becomes one mandatory field
ParamNames == { <<"a", "S">>, <<"a", "s">> }

\* the field the generated code reads for an identifier
FieldNamed(ident) == CHOOSE name \in ParamNames : to_valid_snake_case(name) = ident

\* str::split('.'): the pieces between the dots, empty pieces included
RECURSIVE SplitFrom(_, _, _)
SplitFrom(rest, part, parts) ==
    IF rest = <<>> THEN Append(parts, part)
    ELSE IF Head(rest) = "." THEN SplitFrom(Tail(rest), <<>>, Append(parts, part))
    ELSE SplitFrom(Tail(rest), Append(part, Head(rest)), parts)

SplitDots(text) == SplitFrom(text, <<>>, <<>>)

\* [String]::join("."): a dot between consecutive pieces
RECURSIVE JoinDots(_)
JoinDots(parts) ==
    IF parts = <<>> THEN <<>>
    ELSE IF Len(parts) = 1 THEN parts[1]
    ELSE parts[1] \o <<".">> \o JoinDots(Tail(parts))

\* one expression per template segment, as build.rs emits them
IsPlaceholder(part) == Len(part) >= 1 /\ part[1] = "{" /\ part[Len(part)] = "}"

JoinSegments(channel_key) ==
    LET parts == SplitDots(channel_key) IN
    [k \in 1..Len(parts) |->
        IF IsPlaceholder(parts[k])
        THEN [field |-> TRUE,
              text  |-> to_valid_snake_case(SubSeq(parts[k], 2, Len(parts[k]) - 1))]
        ELSE [field |-> FALSE, text |-> parts[k]]]

\* JSON values a field can serialize to
JString(s) == [t |-> "string", s |-> s, n |-> 0, b |-> FALSE, a |-> <<>>]
JNumber(n) == [t |-> "number", s |-> <<>>, n |-> n, b |-> FALSE, a |-> <<>>]
JBool(b) == [t |-> "bool", s |-> <<>>, n |-> 0, b |-> b, a |-> <<>>]
JNull == [t |-> "null", s |-> <<>>, n |-> 0, b |-> FALSE, a |-> <<>>]
JArray(a) == [t |-> "array", s |-> <<>>, n |-> 0, b |-> FALSE, a |-> a]

\* decimal text of an integer
DigitOf(d) == <<"0", "1", "2", "3", "4", "5", "6", "7", "8", "9">>[d + 1]

RECURSIVE NatToString(_)
NatToString(n) == IF n < 10 THEN <<DigitOf(n)>> ELSE NatToString(n \div 10) \o <<DigitOf(n % 10)>>

NumberToString(n) == IF n < 0 THEN <<"-">> \o NatToString(0 - n) ELSE NatToString(n)

BoolToString(b) == IF b THEN <<"t", "r", "u", "e">> ELSE <<"f", "a", "l", "s", "e">>

RECURSIVE JoinCommas(_)
JoinCommas(parts) ==
    IF parts = <<>> THEN <<>>
    ELSE IF Len(parts) = 1 THEN parts[1]
    ELSE parts[1] \o <<",">> \o JoinCommas(Tail(parts))

\* compact JSON text of a value (arrays hold integers here)
JsonText(v) ==
    CASE v.t = "string" -> <<"\"">> \o v.s \o <<"\"">>
      [] v.t = "number" -> NumberToString(v.n)
      [] v.t = "bool"   -> BoolToString(v.b)
      [] v.t = "null"   -> <<"n", "u", "l", "l">>
      [] v.t = "array"  -> <<"[">> \o JoinCommas([k \in 1..Len(v.a) |-> NumberToString(v.a[k])]) \o <<"]">>

\* sub_param_to_string that writes every value as JSON text
SubParamAsJsonText(v) == JsonText(v)

sub_param_to_string(v) ==
    CASE v.t = "string" -> v.s
      [] v.t = "number" -> NumberToString(v.n)
      [] v.t = "bool"   -> BoolToString(v.b)
      [] OTHER          -> JsonText(v)

\* the generated channel_string(): evaluate every segment, join with "."
channel_string(segments, self) ==
    JoinDots([k \in 1..Len(segments) |->
                 IF segments[k].field
                 THEN sub_param_to_string(self[FieldNamed(segments[k].text)])
                 ELSE segments[k].text])

\* descriptors and field values explored
TemplateSegments ==
    { <<"a">>, <<>>,
      <<"{", "a", "S", "}">>, <<"{", "a", "s", "}">>,
      <<"{", "a", "s", "}", "a">>, <<"a", "{", "a", "s", "}">> }

RECURSIVE WithDots(_)
WithDots(segs) ==
    IF Len(segs) = 1 THEN segs[1]
    ELSE segs[1] \o <<".">> \o WithDots(Tail(segs))

Templates ==
    { WithDots(segs) : segs \in UNION { [1..n -> TemplateSegments] : n \in 1..MaxSegments } }

JsonValues ==
    { JString(<<"B", "-", "P">>), JString(<<"x", ".", "y">>),
      JNumber(10), JNumber(0 - 5), JBool(TRUE), JNull, JArray(<<1, 20>>) }

InitChan ==
    /\ RtInit
    /\ TypeIdle
    /\ tmpl \in Templates
    /\ fields \in [ParamNames -> JsonValues]
    /\ built = [done |-> FALSE, str |-> <<>>]

\* a program calls channel_string() on the descriptor
ChannelString ==
    /\ ~built.done
    /\ built' = [done |-> TRUE, str |-> channel_string(JoinSegments(tmpl), fields)]
    /\ UNCHANGED << tmpl, fields >>
    /\ UNCHANGED type_vars
    /\ UNCHANGED rt_vars

NextChan == ChannelString

SpecChan == InitChan /\ [][NextChan]_vars

\* the text each explored value is expected to become
ExpectedText(v) ==
    CASE v = JString(<<"B", "-", "P">>) -> <<"B", "-", "P">>
      [] v = JString(<<"x", ".", "y">>) -> <<"x", ".", "y">>
      [] v = JNumber(10)                -> <<"1", "0">>
      [] v = JNumber(0 - 5)             -> <<"-", "5">>
      [] v = JBool(TRUE)                -> <<"t", "r", "u", "e">>
      [] v = JNull                      -> <<"n", "u", "l", "l">>
      [] v = JArray(<<1, 20>>)          -> <<"[", "1", ",", "2", "0", "]">>

\* a template segment with its {param} replaced by the parameter's text
Rendered(seg, values) ==
    IF Len(seg) >= 2 /\ Head(seg) = "{" /\ seg[Len(seg)] = "}"
    THEN ExpectedText(values[SubSeq(seg, 2, Len(seg) - 1)])
    ELSE seg

\* one pass over the template: render the segment that ends at each '.'
\* or at the end of the template, and keep every '.'
RECURSIVE Substituted(_, _, _)
Substituted(rest, seg, values) ==
    IF rest = <<>> THEN Rendered(seg, values)
    ELSE IF Head(rest) = "."
         THEN Rendered(seg, values) \o <<".">> \o Substituted(Tail(rest), <<>>, values)
         ELSE Substituted(Tail(rest), Append(seg, Head(rest)), values)

(* ------------------------------------------------------------------ *)
(* C10: for every generated descriptor and every assignment of field   *)
(* values, channel_string() is the template with each {param} segment  *)
(* replaced by the text of that field (a string unquoted, a number or  *)
(* boolean in its canonical text, anything else as JSON text), every   *)
(* literal segment unchanged and the '.' separators kept in place.     *)
(* ------------------------------------------------------------------ *)
C10_ChannelStringSubstitutesTemplate ==
    built.done => built.str = Substituted(tmpl, <<>>, fields)

\* template "a.{aS}.{as}" with aS = "B-P" and as = 10 gave "a.B-P.10"
C10_Witness ==
    /\ built.done
    /\ tmpl = <<"a", ".", "{", "a", "S", "}", ".", "{", "a", "s", "}">>
    /\ fields[<<"a", "S">>] = JString(<<"B", "-", "P">>)
    /\ fields[<<"a", "s">>] = JNumber(10)
    /\ built.str = <<"a", ".", "B", "-", "P", ".", "1", "0">>


(* ------------------------------------------------------------------ *)
(* Generated request and record types (build.rs): fields, and what the *)
(* serde derives make of the attributes field_tokens emits             *)
(* ------------------------------------------------------------------ *)
\* parameter / property names explored: plain, camel case, keyword
FieldNames == { <<"s">>, <<"a", "S">>, <<"a", "s">> }

\* how the description lists a name: not at all, or with `required` true,
\* false or left out
Declarations == {"-", "true", "false", "missing"}
Declared(d) == {n \in FieldNames : d[n] # "-"}

\* required = param_obj.get("required").and_then(as_bool).unwrap_or(false)
ParamRequired(d) == d = "true"

\* fields that are always written, and written as null when they hold nothing
FieldTokensWithoutSkip(name, required) ==
    LET field_name == to_valid_snake_case(name) IN
    [field_name |-> field_name,
     rename     |-> IF field_name # name THEN <<name>> ELSE <<>>,
     default    |-> required,
     option     |-> ~required,
     skip_none  |-> FALSE]

\* fields that are missing unless the key is there
FieldTokensWithoutDefault(name, required) ==
    LET field_name == to_valid_snake_case(name) IN
    [field_name |-> field_name,
     rename     |-> IF field_name # name THEN <<name>> ELSE <<>>,
     default    |-> FALSE,
     option     |-> ~required,
     skip_none  |-> ~required]

\* field_tokens: the identifier, #[serde(rename)] when it differs from the
\* name, then either #[serde(default)] T or
\* #[serde(skip_serializing_if = "Option::is_none")] Option<T>
field_tokens(name, required) ==
    LET field_name == to_valid_snake_case(name) IN
    [field_name |-> field_name,
     rename     |-> IF field_name # name THEN <<name>> ELSE <<>>,
     default    |-> required,
     option     |-> ~required,
     skip_none  |-> ~required]

\* the key the derives write and read: the rename, else the identifier
\* without its raw prefix
Unraw(ident) ==
    IF Len(ident) >= 2 /\ SubSeq(ident, 1, 2) = <<"r", "#">>
    THEN SubSeq(ident, 3, Len(ident)) ELSE ident
WireKey(f) == IF f.rename # <<>> THEN f.rename[1] ELSE Unraw(f.field_name)

\* generate_methods: one field per extracted parameter
RequestFields(d) == [n \in Declared(d) |-> field_tokens(n, ParamRequired(d[n]))]

\* values a field holds: a mandatory field its type's default or a value,
\* an optional field None or Some(value)
FieldValues(d) == IF ParamRequired(d) THEN {"default", "v1"} ELSE {"None", "v1"}
StructValues(d) == { v \in [Declared(d) -> {"default", "None", "v1"}] :
                        \A n \in Declared(d) : v[n] \in FieldValues(d[n]) }

\* derive(Serialize) through serde_json::to_value: the object's members
JsonOfField(v) == IF v = "None" THEN "null" ELSE v
to_params(fs, self) ==
    { <<WireKey(fs[n]), JsonOfField(self[n])>> :
         n \in {m \in DOMAIN fs : ~(fs[m].skip_none /\ self[m] = "None")} }

InitReq ==
    /\ RtInit
    /\ ChanIdle
    /\ desc \in [FieldNames -> Declarations]
    /\ arg \in StructValues(desc)
    /\ ret = NotRun

\* a program calls to_params() on a request value
ToParams ==
    /\ ~ret.done
    /\ ret' = [done |-> TRUE, val |-> to_params(RequestFields(desc), arg)]
    /\ UNCHANGED << desc, arg >>
    /\ UNCHANGED chan_vars
    /\ UNCHANGED rt_vars

NextReq == ToParams

SpecReq == InitReq /\ [][NextReq]_vars

KeysOf(object) == { member[1] : member \in object }

(* ------------------------------------------------------------------ *)
(* C11: the keys of a request's serialized params are exactly its      *)
(* mandatory fields (required: true) and its optional fields that hold *)
(* a value; an optional field holding nothing has no member at all, in *)
(* particular no null one; with no mandatory field and no optional     *)
(* field set the params are the empty object.                          *)
(* ------------------------------------------------------------------ *)
C11_ParamsKeysMandatoryAndPresent ==
    ret.done =>
       LET mandatory == {n \in FieldNames : desc[n] = "true"}
           optional == {n \in FieldNames : desc[n] \in {"false", "missing"}}
           present == {n \in optional : arg[n] # "None"}
       IN /\ KeysOf(ret.val) = mandatory \cup present
          /\ \A member \in ret.val : member[2] # "null"
          /\ Cardinality(ret.val) = Cardinality(mandatory \cup present)
          /\ (mandatory = {} /\ present = {}) => ret.val = {}

\* required "s" holds a value, optional "aS" holds nothing, optional "as" is
\* set: the params have the members "s" and "as" only
C11_Witness ==
    /\ ret.done
    /\ desc = (<<"s">> :> "true") @@ (<<"a", "S">> :> "false") @@ (<<"a", "s">> :> "missing")
    /\ arg[<<"s">>] = "default" /\ arg[<<"a", "S">>] = "None" /\ arg[<<"a", "s">>] = "v1"
    /\ ret.val = { << <<"s">>, "default" >>, << <<"a", "s">>, "v1" >> }


(* ------------------------------------------------------------------ *)
(* Generated request types: method_name() and is_private()             *)
(* ------------------------------------------------------------------ *)
\* a `paths` key: leading slashes, a first piece and the rest, and whether
\* the path has a "get" operation
PathScopes ==
    { <<"p", "r", "i", "v", "a", "t", "e", "/">>,
      <<"p", "u", "b", "l", "i", "c", "/">>,
      <<"p", "r", "i", "v", "a", "t", "e">>,
      <<"p", "r", "i", "v", "a", "t", "/">>,
      <<"P", "r", "i", "v", "a", "t", "e", "/">>,
      <<"x", "p", "r", "i", "v", "a", "t", "e", "/">>,
      <<"p", "r", "i", "v", "a", "t", "e", "_", "/">> }
PathRests == { <<>>, <<"x">>, <<"p", "r", "i", "v", "a", "t", "e", "/", "x">> }
PathSlashes == {0, 1, 2}
PathEntries == [slashes : PathSlashes, scope : PathScopes, rest : PathRests, get : BOOLEAN]

PathOf(e) == [k \in 1..e.slashes |-> "/"] \o e.scope \o e.rest

StartsWith(text, prefix) ==
    Len(text) >= Len(prefix) /\ SubSeq(text, 1, Len(prefix)) = prefix

\* path.trim_start_matches('/')
RECURSIVE TrimStartSlashes(_)
TrimStartSlashes(path) ==
    IF path # <<>> /\ Head(path) = "/" THEN TrimStartSlashes(Tail(path)) ELSE path

\* extract_methods + generate_methods: the literal method_name() returns
method_name(path) == TrimStartSlashes(path)

\* a scope test that forgets the separator
IsPrivateWithoutSlash(name) == StartsWith(name, <<"p", "r", "i", "v", "a", "t", "e">>)

\* ApiRequest::is_private
is_private(name) == StartsWith(name, <<"p", "r", "i", "v", "a", "t", "e", "/">>)

InitMethod ==
    /\ RtInit
    /\ ChanIdle
    /\ desc \in PathEntries
    /\ arg = <<>>
    /\ ret = NotRun

\* a program asks a request value of the path's type for its name and scope;
\* a path without a "get" operation gets no request type
MethodName ==
    /\ ~ret.done
    /\ desc.get
    /\ ret' = [done |-> TRUE,
               val |-> [method_name |-> method_name(PathOf(desc)),
                        is_private |-> is_private(method_name(PathOf(desc)))]]
    /\ UNCHANGED << desc, arg >>
    /\ UNCHANGED chan_vars
    /\ UNCHANGED rt_vars

NextMethod == MethodName

SpecMethod == InitMethod /\ [][NextMethod]_vars

RECURSIVE SplitAt(_, _, _, _)
SplitAt(rest, sep, part, parts) ==
    IF rest = <<>> THEN Append(parts, part)
    ELSE IF Head(rest) = sep THEN SplitAt(Tail(rest), sep, <<>>, Append(parts, part))
    ELSE SplitAt(Tail(rest), sep, Append(part, Head(rest)), parts)

RECURSIVE Collect(_)
Collect(parts) == IF parts = <<>> THEN <<>> ELSE Head(parts) \o Collect(Tail(parts))

\* first character uppercased, the others lowercased
Capitalized(word) ==
    IF word = <<>> THEN <<>>
    ELSE <<ToUppercase(Head(word))>> \o [k \in 1..(Len(word) - 1) |-> ToLowercase(word[k + 1])]

to_pascal_case(text) ==
    LET words(part) == SplitAt(part, "_", <<>>, <<>>)
        pascal(part) == Collect([k \in 1..Len(words(part)) |-> Capitalized(words(part)[k])])
        parts == SplitAt(text, "/", <<>>, <<>>)
        joined == Collect([k \in 1..Len(parts) |-> pascal(parts[k])])
    IN  IF joined # <<>> /\ Head(joined) \in DigitChars THEN <<"_">> \o joined ELSE joined

to_valid_pascal_case(text) == sanitize_ident(to_pascal_case(text))

\* a variant written under its identifier instead of its value
VariantWithoutRename(value) ==
    [value_name |-> to_valid_pascal_case(value), rename |-> to_valid_pascal_case(value)]

\* #[serde(rename = #value)] #value_name
EnumVariant(value) == [value_name |-> to_valid_pascal_case(value), rename |-> value]

EnumVariants(values) == [k \in 1..Len(values) |-> EnumVariant(values[k])]

\* the enum is accepted by the compiler: it has a variant, and the variant
\* names are identifiers, each defined once
Compiles(variants) ==
    /\ variants # <<>>
    /\ \A k \in 1..Len(variants) :
          variants[k].value_name \notin { <<"_">>, <<"S", "e", "l", "f">> }
    /\ \A j, k \in 1..Len(variants) :
          variants[j].value_name = variants[k].value_name => j = k

\* derive(Serialize): the wire string of the variant with this name
SerializedVariant(variants, name) ==
    variants[CHOOSE k \in 1..Len(variants) : variants[k].value_name = name].rename

\* derive(Deserialize): the name of the variant written as this wire string
DeserializedVariant(variants, wire) ==
    IF \E k \in 1..Len(variants) : variants[k].rename = wire
    THEN variants[CHOOSE k \in 1..Len(variants) : variants[k].rename = wire].value_name
    ELSE <<"u", "n", "k", "n", "o", "w", "n", " ", "v", "a", "r", "i", "a", "n", "t">>

\* enum literals explored
EnumLiterals ==
    { <<"B", "T", "C">>, <<"b", "t", "c">>, <<"b", "_", "c">>, <<"b", "/", "c">>,
      <<"b", "c">>, <<"b", "C">>, <<"2", "b">>, <<"b", "-", "c">>, <<"b", ".", "c">> }

EnumLists == UNION { [1..n -> EnumLiterals] : n \in 1..MaxEnumValues }

InitEnum ==
    /\ RtInit
    /\ ChanIdle
    /\ desc \in EnumLists
    /\ arg \in 1..Len(desc)
    /\ ret = NotRun

\* a program serializes the variant derived from the arg-th value of the list
\* and deserializes the string it got
EnumRoundTrip ==
    /\ ~ret.done
    /\ Compiles(EnumVariants(desc))
    /\ LET variants == EnumVariants(desc)
           wire == SerializedVariant(variants, to_valid_pascal_case(desc[arg]))
       IN ret' = [done |-> TRUE,
                  val |-> [wire |-> wire, back |-> DeserializedVariant(variants, wire)]]
    /\ UNCHANGED << desc, arg >>
    /\ UNCHANGED chan_vars
    /\ UNCHANGED rt_vars

NextEnum == EnumRoundTrip

SpecEnum == InitEnum /\ [][NextEnum]_vars

(* ------------------------------------------------------------------ *)
(* C13: for a generated enumerated type and a value of its enum list,  *)
(* the variant derived from the value serializes to exactly that       *)
(* string, that string deserializes to the same variant, and distinct  *)
(* values of the list have distinct variants.                          *)
(* ------------------------------------------------------------------ *)
C13_EnumRoundTrip ==
    ret.done =>
       /\ ret.val.wire = desc[arg]
       /\ ret.val.back = to_valid_pascal_case(desc[arg])
       /\ \A j, k \in 1..Len(desc) :
             desc[j] # desc[k] => to_valid_pascal_case(desc[j]) # to_valid_pascal_case(desc[k])

\* the list ["BTC", "b_c"]: variant Btc is written "BTC" and read back as Btc
C13_Witness ==
    /\ ret.done
    /\ desc = << <<"B", "T", "C">>, <<"b", "_", "c">> >>
    /\ arg = 1
    /\ ret.val = [wire |-> <<"B", "T", "C">>, back |-> <<"B", "t", "c">>]


(* ------------------------------------------------------------------ *)
(* Generated record types (determine_type, object branch): reading a   *)
(* JSON object                                                         *)
(* ------------------------------------------------------------------ *)
\* how the schema has a property: not at all, or as a property whose name is
\* or is not in the schema's `required` list
PropertyKinds == {"-", "listed", "unlisted"}
Properties(d) == {n \in FieldNames : d[n] # "-"}

\* required_properties.contains(&key)
PropertyRequired(d) == d = "listed"

\* one field per property
RecordFields(d) == [n \in Properties(d) |-> field_tokens(n, PropertyRequired(d[n]))]

\* JSON objects read: any of the names as keys, each with a value
JsonObjects == SUBSET { <<n, "v1">> : n \in FieldNames }

\* derive(Deserialize): a field takes the member under its key; without one
\* a #[serde(default)] field takes Default::default() and an Option field
\* None; any other field is reported missing
FieldRead(f, object) ==
    IF \E member \in object : member[1] = WireKey(f)
    THEN (CHOOSE member \in object : member[1] = WireKey(f))[2]
    ELSE IF f.default THEN "default"
    ELSE IF f.option THEN "None"
    ELSE "missing field"

from_value(fs, object) ==
    LET rec == [n \in DOMAIN fs |-> FieldRead(fs[n], object)] IN
    IF \E n \in DOMAIN fs : rec[n] = "missing field"
    THEN [ok |-> FALSE, rec |-> <<>>]
    ELSE [ok |-> TRUE, rec |-> rec]

InitRecord ==
    /\ RtInit
    /\ ChanIdle
    /\ desc \in [FieldNames -> PropertyKinds]
    /\ arg \in JsonObjects
    /\ ret = NotRun

\* a program deserializes a JSON object into the record type
FromValue ==
    /\ ~ret.done
    /\ ret' = [done |-> TRUE, val |-> from_value(RecordFields(desc), arg)]
    /\ UNCHANGED << desc, arg >>
    /\ UNCHANGED chan_vars
    /\ UNCHANGED rt_vars

NextRecord == FromValue

SpecRecord == InitRecord /\ [][NextRecord]_vars

(* ------------------------------------------------------------------ *)
(* C14: reading a JSON object into a generated record type does not    *)
(* fail over a missing key: a property in the schema's required list   *)
(* takes its type's default when its key is absent, any other property *)
(* is absent (None), and a key that is present gives its value.        *)
(* ------------------------------------------------------------------ *)
C14_MissingKeysNeverFail ==
    ret.done =>
       /\ ret.val.ok
       /\ \A n \in FieldNames :
             desc[n] # "-" =>
                ret.val.rec[n] = IF <<n, "v1">> \in arg THEN "v1"
                                 ELSE IF desc[n] = "listed" THEN "default"
                                 ELSE "None"

\* required "s" and optional "aS" are both missing from the object, optional
\* "as" is there: the record is (default, None, value)
C14_Witness ==
    /\ ret.done
    /\ desc = (<<"s">> :> "listed") @@ (<<"a", "S">> :> "unlisted") @@ (<<"a", "s">> :> "unlisted")
    /\ arg = { << <<"a", "s">>, "v1" >> }
    /\ ret.val.ok
    /\ ret.val.rec = (<<"s">> :> "default") @@ (<<"a", "S">> :> "None") @@ (<<"a", "s">> :> "v1")


(* ------------------------------------------------------------------ *)
(* References in the API description (resolve_ref, expand_ref) and     *)
(* what the generator does with one that has no target                 *)
(* ------------------------------------------------------------------ *)
\* places a pointer can name, and what the description has there
RefPaths ==
    { <<"components", "schemas", "a">>, <<"components", "schemas", "b">>,
      <<"components", "parameters", "a">> }
RefTargetKinds == {"none", "object", "string"}

\* an object holding "$ref": the pointer (with or without its "#/" prefix),
\* what else the object holds, and where the description uses it
RefUses == {"schema", "parameter"}
RefObjects ==
    [hash : BOOLEAN, path : RefPaths, type : {"none", "integer"}, name : BOOLEAN,
     use : RefUses]

\* get_deep_value(&ref_parts, &self.spec)
get_deep_value(path, spec) == IF path \in DOMAIN spec THEN spec[path] ELSE "none"

\* resolve_ref: the pointer starts with "#/" and leads to an object
resolve_ref(object, spec) == object.hash /\ get_deep_value(object.path, spec) = "object"

\* expand_ref: Some(..) exactly when the pointer resolves
expand_ref(object, spec) == resolve_ref(object, spec)

\* determine_type on the object: the referenced schema's type, or, with
\* expand_ref = None, the type of the object as it stands
determine_type(object, spec) ==
    IF expand_ref(object, spec) THEN "referenced type"
    ELSE IF object.type = "integer" THEN "i64"
    ELSE "serde_json::Value"

\* extract_parameters on the object: the fields it contributes
extract_parameters(object, spec) ==
    IF expand_ref(object, spec) \/ object.name
    THEN { determine_type(object, spec) }
    ELSE {}

\* DeribitApiGen::new on the description: no step of it fails on a pointer
Generated(object, spec) ==
    [aborted |-> FALSE,
     types |-> IF object.use = "schema" THEN { determine_type(object, spec) }
               ELSE extract_parameters(object, spec)]

InitRef ==
    /\ RtInit
    /\ ChanIdle
    /\ desc \in [RefPaths -> RefTargetKinds]
    /\ arg \in RefObjects
    /\ ret = NotRun

\* the build script runs on the description
Build ==
    /\ ~ret.done
    /\ ret' = [done |-> TRUE, val |-> Generated(arg, desc)]
    /\ UNCHANGED << desc, arg >>
    /\ UNCHANGED chan_vars
    /\ UNCHANGED rt_vars

NextRef == Build

SpecRef == InitRef /\ [][NextRef]_vars

(* ------------------------------------------------------------------ *)
(* C15: a reference pointer without a resolvable target aborts the     *)
(* build; no type set is produced.                                     *)
(* ------------------------------------------------------------------ *)
C15_UnresolvedReferenceAborts ==
    (ret.done /\ ~(arg.hash /\ desc[arg.path] = "object")) => ret.val.aborted


(* ------------------------------------------------------------------ *)
(* Properties of the multiplexer's tables (specification Spec)         *)
(* ------------------------------------------------------------------ *)
\* the loop takes the oldest queued request and writes it
TakesAndWrites ==
    /\ request_channel # <<>>
    /\ request_channel' = Tail(request_channel)
    /\ ws_out' = Append(ws_out, Head(request_channel))

\* the loop handles a response carrying id i whose entry is in the table: the
\* entry goes, and only handles awaiting id i receive something, namely it
AnsweredById(i) ==
    /\ loop = "running" /\ loop' = "running"
    /\ pending_requests' = pending_requests \ {i}
    /\ ws_out' = ws_out /\ request_channel' = request_channel
    /\ \A c \in Callers :
          IF pc[c] = "wait" /\ op[c].id = i /\ rx[c].st = "empty"
          THEN rx'[c].st \in {"ok", "err"} /\ rx'[c].from = i
          ELSE rx'[c] = rx[c]

Issued == request_channel \o ws_out

(* ------------------------------------------------------------------ *)
(* C17: ids come from one counter that only grows: every id in use is  *)
(* below the counter, no two requests queued or written, whether a     *)
(* caller's or the loop's heartbeat reply, carry the same id, and no   *)
(* two operations in progress hold the same id, so no two pending      *)
(* entries can share one.                                              *)
(* ------------------------------------------------------------------ *)
C17_IdsUnique ==
    /\ \A j, k \in DOMAIN Issued : Issued[j].id = Issued[k].id => j = k
    /\ \A k \in DOMAIN Issued : Issued[k].id < id_counter
    /\ \A c, d \in Callers :
          (op[c].kind # "none" /\ op[d].kind # "none" /\ op[c].id = op[d].id) => c = d
    /\ \A c \in Callers : op[c].kind # "none" => op[c].id < id_counter
    /\ \A i \in pending_requests : i < id_counter

\* a caller took id 0, the loop then answered a heartbeat with id 1 and wrote
\* it before the caller's request
C17_Witness ==
    /\ Len(ws_out) = 2
    /\ ws_out[1] = TestRequest(1)
    /\ ws_out[2].id = 0 /\ ws_out[2].method # "public/test"
    /\ pending_requests = {0}


\* the loop takes the oldest queued registration, which is for channel ch
RegistersFor(ch) ==
    /\ loop' = "running"
    /\ subscription_channel # <<>>
    /\ Head(subscription_channel).channel = ch
    /\ subscription_channel' = Tail(subscription_channel)

\* the loop handles a notification for ch, finds no live reader and drops
\* the channel's entry; nothing else changes
DropsInertEntry(ch) ==
    /\ loop = "running"
    /\ ch \in subscribers
    /\ ReceiverCount(ch) = 0
    /\ subscribers' = subscribers \ {ch}
    /\ UNCHANGED << loop, id_counter, authenticated, request_channel, subscription_channel,
                    pending_requests, bcast, ws_out, pc, op, rx, res, stream, item >>

(* ------------------------------------------------------------------ *)
(* C18 as stated: once a channel string is a key of the registry it is *)
(* a key in every later state of the running connection.               *)
(* ------------------------------------------------------------------ *)
C18_EntryNeverRemoved ==
    [][ loop' = "running" => \A ch \in subscribers : ch \in subscribers' ]_vars

(* ------------------------------------------------------------------ *)
(* C18 amended: an entry is created by the first registration for its  *)
(* channel string and survives the disconnection of its last           *)
(* subscriber, but not for the connection's lifetime: the loop removes *)
(* it when a notification for the channel arrives while no reader is   *)
(* live.  While the loop runs nothing else removes an entry.           *)
(* ------------------------------------------------------------------ *)
C18_EntryStaysUntilFailedPublish ==
    [][ /\ \A ch \in subscribers' \ subscribers : RegistersFor(ch)
        /\ \A ch \in Channels : RegistersFor(ch) => ch \in subscribers'
        /\ \A ch \in subscribers \ subscribers' :
              DropsInertEntry(ch) \/ loop' = "panicked"
        /\ \A c \in Callers :
              (stream[c].open /\ ~stream'[c].open) => subscribers' = subscribers
      ]_vars

\* chA's readers are gone after receiving a notification; its entry is still
\* in the registry
C18_Witness ==
    /\ loop = "running"
    /\ "chA" \in subscribers
    /\ ReceiverCount("chA") = 0
    /\ bcast["chA"].pos > 0
    /\ \E c \in Callers : pc[c] = "dropped"


(* ------------------------------------------------------------------ *)
(* C19: while the loop runs, a notification for a channel whose entry  *)
(* has no live reader is always handled, and handling it removes that  *)
(* entry and changes nothing else: no error reaches anyone and the     *)
(* loop keeps running; a notification for a channel without an entry   *)
(* is always handled too and changes no state at all.                  *)
(* ------------------------------------------------------------------ *)
C19_InertEntryRemovedSilently ==
    loop = "running" =>
       \A ch \in Channels :
          /\ (ch \in subscribers /\ ReceiverCount(ch) = 0) =>
                /\ ENABLED RecvNotification(ch, MaxNotif)
                /\ ~ENABLED (RecvNotification(ch, MaxNotif) /\ ~DropsInertEntry(ch))
          /\ ch \notin subscribers =>
                /\ ENABLED RecvNotification(ch, MaxNotif)
                /\ ~ENABLED (RecvNotification(ch, MaxNotif) /\ vars' # vars)

\* chA had a reader and publications; the reader left, a further notification
\* came, and the entry is gone while the loop runs on
C19_Witness ==
    /\ loop = "running"
    /\ "chA" \notin subscribers
    /\ bcast["chA"].pos > 0
    /\ ReceiverCount("chA") = 0
    /\ \A c \in Callers : res[c].tag \notin {"connection_closed", "rpc_error"}


\* a caller-side operation takes a step: call_raw or subscribe_raw moves on,
\* a stream is read, or a future or stream is dropped
CallerActs ==
    \E c \in Callers : pc'[c] # pc[c] \/ item'[c] # item[c]
                       \/ (pc[c] = "streaming" /\ stream'[c] # stream[c])

\* a caller-side operation begins and takes the counter's value as its id
TakesNextId ==
    /\ id_counter' = id_counter + 1
    /\ \E c \in Callers : pc[c] = "idle" /\ pc'[c] = "send" /\ op'[c].id = id_counter

(* ------------------------------------------------------------------ *)
(* C20 as stated: no caller-side step changes the pending table, the   *)
(* subscriber registry or the id counter.                              *)
(* ------------------------------------------------------------------ *)
C20_CallersTouchNoMultiplexerState ==
    [][ CallerActs => UNCHANGED << pending_requests, subscribers, id_counter >> ]_vars

(* ------------------------------------------------------------------ *)
(* C20 amended: the pending table and the subscriber registry are      *)
(* changed by the control loop only, never by a caller-side step.  The *)
(* id counter is shared: a caller-side operation advances it by one    *)
(* when it starts (next_id), and the loop advances it by one when it   *)
(* answers a test_request heartbeat; nothing else changes it.          *)
(* ------------------------------------------------------------------ *)
C20_TablesLoopOnlyCounterShared ==
    [][ /\ CallerActs => UNCHANGED << pending_requests, subscribers >>
        /\ id_counter' # id_counter =>
              IF CallerActs THEN TakesNextId
              ELSE /\ id_counter' = id_counter + 1
                   /\ \/ ws_out' = Append(ws_out, TestRequest(id_counter))
                      \/ loop' = "panicked"
      ]_vars

\* t1 began a call and holds id 0 while the loop has not seen the request yet:
\* the counter moved with the tables untouched
C20_Witness ==
    /\ pc["t1"] = "send"
    /\ op["t1"].id = 0
    /\ id_counter = 1
    /\ pending_requests = {} /\ subscribers = {}
    /\ request_channel = <<>> /\ ws_out = <<>>


\* ids a response frame may carry: those handed out and one never handed out
ResponseIds == 0..MaxId

(* ------------------------------------------------------------------ *)
(* C21: while the loop runs, a success or error response whose id has  *)
(* no pending entry (never issued, already answered, or the id of the  *)
(* loop's own public/test request) is always handled and changes no    *)
(* state at all: tables, handles, transport and loop stay as they are. *)
(* ------------------------------------------------------------------ *)
C21_UnmatchedResponseIsNoOp ==
    loop = "running" =>
       \A i \in ResponseIds \ pending_requests :
          /\ \A r \in ResultValues :
                /\ ENABLED RecvOkResponse(i, r)
                /\ ~ENABLED (RecvOkResponse(i, r) /\ vars' # vars)
          /\ ENABLED RecvErrorResponse(i)
          /\ ~ENABLED (RecvErrorResponse(i) /\ vars' # vars)

\* t1's request 0 is pending and unanswered while the loop's public/test
\* request went out with id 1, which has no entry; id 2 was never issued
C21_Witness ==
    /\ loop = "running"
    /\ pending_requests = {0}
    /\ pc["t1"] = "wait" /\ op["t1"].id = 0 /\ rx["t1"].st = "empty"
    /\ Len(ws_out) = 2 /\ ws_out[2] = TestRequest(1)
    /\ id_counter = 2


\* an entry of the pending table that no call in progress holds the id of
Abandoned(i) ==
    /\ i \in pending_requests
    /\ \A c \in Callers : op[c].kind = "none" \/ op[c].id # i

FrameMethods == {"missing", "heartbeat", "subscription", "other"}
FrameParamTypes == {"none"} \cup HeartbeatTypes
FrameIds == {"missing", "u64", "other"}
FrameErrors == {"missing", "object", "other"}
Frames ==
    [jsonrpc : BOOLEAN, method : FrameMethods, type : FrameParamTypes,
     channel_data : BOOLEAN, id : FrameIds, timing : BOOLEAN, result : BOOLEAN,
     error : FrameErrors]

\* RpcResponseBase, flattened into both response structs
FitsBase(f) == f.jsonrpc /\ f.id = "u64" /\ f.timing

\* derive(Deserialize) of a variant's struct: its members are there and well
\* typed; members it does not name are ignored
Fits(variant, f) ==
    CASE variant = "Heartbeat" ->
            f.jsonrpc /\ f.method = "heartbeat" /\ f.type \in HeartbeatTypes
      [] variant = "Notification" ->
            f.jsonrpc /\ f.method = "subscription" /\ f.channel_data
      [] variant = "OkResponse" -> FitsBase(f) /\ f.result
      [] variant = "ErrorResponse" -> FitsBase(f) /\ f.error = "object"

\* an enum that lists the error response before the success response
ErrorResponseFirst == <<"Heartbeat", "Notification", "ErrorResponse", "OkResponse">>

\* enum JsonRPCMessage: its variants as declared
JsonRPCMessage == <<"Heartbeat", "Notification", "OkResponse", "ErrorResponse">>

\* #[serde(untagged)]: the first variant that deserializes, else an error
RECURSIVE FirstFit(_, _)
FirstFit(variants, f) ==
    IF variants = <<>> THEN "invalid"
    ELSE IF Fits(Head(variants), f) THEN Head(variants)
    ELSE FirstFit(Tail(variants), f)

\* serde_json::from_str::<JsonRPCMessage>(&text)
from_str(f) == FirstFit(JsonRPCMessage, f)

InitFrame ==
    /\ RtInit
    /\ ChanIdle
    /\ desc = <<>>
    /\ arg \in Frames
    /\ ret = NotRun

\* Some(Ok(Message::Text(text))): the loop decodes the frame and handles the
\* message; on a fresh connection the tables are empty, so a notification or
\* a response finds no entry
RecvText ==
    /\ loop = "running"
    /\ ~ret.done
    /\ ret' = [done |-> TRUE, val |-> from_str(arg)]
    /\ CASE from_str(arg) = "invalid" ->
              /\ Panic
              /\ UNCHANGED << id_counter, ws_out >>
         [] from_str(arg) = "Heartbeat" /\ arg.type = "test_request" ->
              /\ id_counter' = id_counter + 1
              /\ ws_out' = Append(ws_out, TestRequest(next_id(id_counter)))
              /\ UNCHANGED << loop, request_channel, subscription_channel,
                              pending_requests, subscribers, bcast, rx >>
         [] OTHER ->
              UNCHANGED << loop, request_channel, subscription_channel,
                           pending_requests, subscribers, bcast, rx, id_counter, ws_out >>
    /\ UNCHANGED << authenticated, pc, op, res, stream, item >>
    /\ UNCHANGED << desc, arg >>
    /\ UNCHANGED chan_vars

NextFrame == RecvText

SpecFrame == InitFrame /\ [][NextFrame]_vars

\* the shapes a frame fits
Fitting(f) == {v \in {"Heartbeat", "Notification", "OkResponse", "ErrorResponse"} : Fits(v, f)}

\* the orders the four shapes can be tried in
ShapeOrders ==
    { o \in [1..4 -> {"Heartbeat", "Notification", "OkResponse", "ErrorResponse"}] :
         \A j, k \in 1..4 : o[j] = o[k] => j = k }

\* place of a shape in the order heartbeat, notification, success, error
ShapeRank(v) ==
    CASE v = "Heartbeat" -> 1 [] v = "Notification" -> 2
      [] v = "OkResponse" -> 3 [] v = "ErrorResponse" -> 4

\* a frame as the protocol has them: a heartbeat or notification carries a
\* method and no id, result or error; a response carries no method and
\* either a result or an error
ProtocolFrame(f) ==
    \/ f.method # "missing" /\ f.id = "missing" /\ ~f.result /\ f.error = "missing"
    \/ f.method = "missing" /\ (f.result <=> f.error = "missing")

(* ------------------------------------------------------------------ *)
(* C23 as stated: a frame that is decoded fits exactly one of the four *)
(* shapes, and trying the shapes in any other order gives the same     *)
(* shape.                                                              *)
(* ------------------------------------------------------------------ *)
C23_ShapesMutuallyExclusive ==
    (ret.done /\ ret.val # "invalid") =>
       /\ Cardinality(Fitting(arg)) = 1
       /\ \A o \in ShapeOrders : FirstFit(o, arg) = ret.val

(* ------------------------------------------------------------------ *)
(* C23 amended: a frame is handled as the first shape it fits in the   *)
(* order heartbeat, notification, success response, error response,    *)
(* and the loop terminates exactly when it fits none.  A frame of the  *)
(* protocol fits at most one shape; a frame that carries the members   *)
(* of a success response together with those of a heartbeat, of a      *)
(* notification or of an error response fits both shapes.              *)
(* ------------------------------------------------------------------ *)
C23_FirstFittingShapeInOrder ==
    ret.done =>
       /\ ret.val = "invalid" <=> Fitting(arg) = {}
       /\ ret.val = "invalid" <=> loop = "panicked"
       /\ ret.val # "invalid" =>
             /\ ret.val \in Fitting(arg)
             /\ \A v \in Fitting(arg) : ShapeRank(ret.val) <= ShapeRank(v)
       /\ ProtocolFrame(arg) => Cardinality(Fitting(arg)) <= 1
       /\ (FitsBase(arg) /\ arg.result /\ arg.error = "object") =>
             {"OkResponse", "ErrorResponse"} \subseteq Fitting(arg)
       /\ (FitsBase(arg) /\ arg.result /\ arg.method = "heartbeat" /\ arg.type # "none") =>
             {"Heartbeat", "OkResponse"} \subseteq Fitting(arg)
       /\ (FitsBase(arg) /\ arg.result /\ arg.method = "subscription" /\ arg.channel_data) =>
             {"Notification", "OkResponse"} \subseteq Fitting(arg)

\* a frame with the response members and both a result and an error was
\* handled as a success response
C23_Witness ==
    /\ ret.done
    /\ arg.jsonrpc /\ arg.id = "u64" /\ arg.timing
    /\ arg.method = "missing"
    /\ arg.result /\ arg.error = "object"
    /\ ret.val = "OkResponse"
    /\ loop = "running"


(* ------------------------------------------------------------------ *)
(* The reference table (generate_ref_names)                            *)
(* ------------------------------------------------------------------ *)
SchemaSuffix == <<"_", "s", "c", "h", "e", "m", "a">>
ParamSuffix == <<"_", "p", "a", "r", "a", "m">>
TypesKey == <<"t", "y", "p", "e", "s">>

\* keys used in the three namespaces
ComponentNames == { <<"a">>, <<"a">> \o SchemaSuffix, <<"a">> \o ParamSuffix, TypesKey }

\* components.schemas.types, components.schemas (which holds the key "types")
\* and components.parameters, each by its keys
Components ==
    [types : SUBSET ComponentNames,
     schemas : {s \in SUBSET ComponentNames : TypesKey \in s},
     parameters : SUBSET ComponentNames]

\* "#/components/schemas/types/{name}", "#/components/schemas/{name}" and
\* "#/components/parameters/{name}"
RefPointers(components) ==
    [namespace : {"types"}, name : components.types]
       \cup [namespace : {"schemas"}, name : components.schemas]
       \cup [namespace : {"parameters"}, name : components.parameters]

\* generate_ref_names: the three loops; seen_names holds the keys of the
\* namespaces gone through before (the keys of one namespace are distinct)
generate_ref_names(components) ==
    LET seen_after_types == components.types
        seen_after_schemas == seen_after_types \cup components.schemas
    IN [ptr \in RefPointers(components) |->
          CASE ptr.namespace = "types" -> ptr.name
            [] ptr.namespace = "schemas" ->
                  IF ptr.name \in seen_after_types THEN ptr.name \o SchemaSuffix ELSE ptr.name
            [] ptr.namespace = "parameters" ->
                  IF ptr.name \in seen_after_schemas THEN ptr.name \o ParamSuffix ELSE ptr.name]

InitNames ==
    /\ RtInit
    /\ ChanIdle
    /\ desc \in Components
    /\ arg = <<>>
    /\ ret = NotRun

\* DeribitApiGen::new builds the table from the description
GenerateRefNames ==
    /\ ~ret.done
    /\ ret' = [done |-> TRUE, val |-> generate_ref_names(desc)]
    /\ UNCHANGED << desc, arg >>
    /\ UNCHANGED chan_vars
    /\ UNCHANGED rt_vars

NextNames == GenerateRefNames

SpecNames == InitNames /\ [][NextNames]_vars

(* ------------------------------------------------------------------ *)
(* C24: in the reference table a name keeps its bare form in the first *)
(* of the namespaces data types, schemas, parameters that has it and   *)
(* gets the suffix _schema or _param in the later ones, and no two     *)
(* distinct pointers have the same name.                               *)
(* ------------------------------------------------------------------ *)
C24_RefNamesPairwiseDistinct ==
    ret.done =>
       /\ \A ptr \in DOMAIN ret.val :
             ret.val[ptr] =
                IF ptr.namespace = "types" THEN ptr.name
                ELSE IF ptr.namespace = "schemas"
                     THEN IF ptr.name \in desc.types
                          THEN ptr.name \o SchemaSuffix ELSE ptr.name
                     ELSE IF ptr.name \in desc.types \cup desc.schemas
                          THEN ptr.name \o ParamSuffix ELSE ptr.name
       /\ \A ptr, other \in DOMAIN ret.val : ptr # other => ret.val[ptr] # ret.val[other]


(* ------------------------------------------------------------------ *)
(* Type synthesis with the generated-type registry (determine_type,    *)
(* the branches taken once references and allOf are resolved)          *)
(* ------------------------------------------------------------------ *)
\* schemas: a type, enum values, and properties as (key, schema) pairs in the
\* order the map yields them, with the names in `required`
Schema(type, enum, properties, required) ==
    [type |-> type, enum |-> enum, properties |-> properties, required |-> required]
Property(key, schema) == [key |-> key, schema |-> schema]

StringSchema == Schema("string", <<>>, <<>>, {})
IntegerSchema == Schema("integer", <<>>, <<>>, {})
EnumSchema(values) == Schema("string", values, <<>>, {})
ObjectSchema(properties, required) == Schema("object", <<>>, properties, required)

PlainKey == <<"a">>
PlaceholderKey == <<"{", "c", "}">>

RecordOfString == ObjectSchema(<< Property(PlainKey, StringSchema) >>, {PlainKey})
RecordOfInteger == ObjectSchema(<< Property(PlainKey, IntegerSchema) >>, {})

\* the schemas synthesized: two enums, two records, a record holding a
\* record, and objects with a placeholder key: alone, after and before an
\* ordinary key
Schemas ==
    { EnumSchema(<< <<"b">> >>),
      EnumSchema(<< <<"c">> >>),
      RecordOfString,
      RecordOfInteger,
      ObjectSchema(<< Property(PlainKey, RecordOfString) >>, {}),
      ObjectSchema(<< Property(PlaceholderKey, IntegerSchema) >>, {}),
      ObjectSchema(<< Property(PlainKey, RecordOfString),
                      Property(PlaceholderKey, StringSchema) >>, {}),
      ObjectSchema(<< Property(PlaceholderKey, RecordOfString),
                      Property(PlainKey, EnumSchema(<< <<"b">> >>)) >>, {}) }

\* candidate names: two that normalize to the same identifier, and one that
\* is the name of another's property type
TypeNames == { <<"a", "_", "b">>, <<"a", "/", "b">>, <<"c">>, <<"c", "_", "a">> }

\* the type handles determine_type returns
Named(name) == [k |-> "named", n |-> name, v |-> <<>>]
Primitive(p) == [k |-> p, n |-> <<>>, v |-> <<>>]
HashMapOf(value_type) == [k |-> "HashMap", n |-> <<>>, v |-> <<value_type>>]

\* generated_types and generated_code of a DeribitApiGen, with the record of
\* the syntheses that went to the registry
NewGen == [generated_types |-> {}, generated_code |-> <<>>, log |-> <<>>]

\* a registry that accepts every name
InsertsAlways(generated_types, name) == TRUE

\* self.generated_types.insert(name): true when the name was not there
Inserts(generated_types, name) == name \notin generated_types

\* a registration that is left behind
NotDiscarded(generated_types, name) == generated_types

\* self.generated_types.remove(&struct_name.to_string())
Discarded(generated_types, name) == generated_types \ {name}

\* self.generated_code.extend(quote! { pub enum .. / pub struct .. })
Emitted(gen, name, kind, values, tokens) ==
    [gen EXCEPT !.generated_code =
        Append(@, [name |-> name, kind |-> kind, values |-> values, tokens |-> tokens])]

Logged(gen, name, schema, type) ==
    [gen EXCEPT !.log = Append(@, [name |-> name, schema |-> schema, type |-> type])]

RECURSIVE DetermineType(_, _, _)
RECURSIVE PropertiesTokens(_, _, _, _, _, _)

\* the loop over properties.as_object(): synthesize the k-th property's type,
\* return a map on a placeholder key, else collect the field
PropertiesTokens(type_name, struct_name, schema, k, gen, tokens) ==
    IF k > Len(schema.properties)
    THEN [returned |-> FALSE, type |-> Named(struct_name), gen |-> gen, tokens |-> tokens]
    ELSE LET key == schema.properties[k].key
             property == DetermineType(type_name \o <<"_">> \o key,
                                       schema.properties[k].schema, gen)
         IN IF IsPlaceholder(key)
            THEN [returned |-> TRUE,
                  type |-> HashMapOf(property.type),
                  gen |-> [property.gen EXCEPT !.generated_types = Discarded(@, struct_name)],
                  tokens |-> <<>>]
            ELSE PropertiesTokens(type_name, struct_name, schema, k + 1, property.gen,
                                  Append(tokens,
                                         [field |-> field_tokens(key, key \in schema.required),
                                          type |-> property.type]))

DetermineType(type_name, schema, gen) ==
    CASE schema.type = "string" /\ schema.enum # <<>> ->
            LET enum_name == to_valid_pascal_case(type_name)
                registered == IF Inserts(gen.generated_types, enum_name)
                              THEN Emitted([gen EXCEPT !.generated_types = @ \cup {enum_name}],
                                           enum_name, "enum", EnumVariants(schema.enum), <<>>)
                              ELSE gen
            IN [type |-> Named(enum_name),
                gen |-> Logged(registered, enum_name, schema, Named(enum_name))]
      [] schema.type = "string" /\ schema.enum = <<>> ->
            [type |-> Primitive("String"), gen |-> gen]
      [] schema.type = "integer" ->
            [type |-> Primitive("i64"), gen |-> gen]
      [] schema.type = "object" ->
            LET struct_name == to_valid_pascal_case(type_name) IN
            IF Inserts(gen.generated_types, struct_name)
            THEN LET out == PropertiesTokens(type_name, struct_name, schema, 1,
                                             [gen EXCEPT !.generated_types = @ \cup {struct_name}],
                                             <<>>)
                 IN IF out.returned
                    THEN [type |-> out.type,
                          gen |-> Logged(out.gen, struct_name, schema, out.type)]
                    ELSE [type |-> Named(struct_name),
                          gen |-> Logged(Emitted(out.gen, struct_name, "struct", <<>>, out.tokens),
                                         struct_name, schema, Named(struct_name))]
            ELSE [type |-> Named(struct_name),
                  gen |-> Logged(gen, struct_name, schema, Named(struct_name))]

\* the syntheses of one pass: candidate name and schema of each
SynthesisCalls == [type_name : TypeNames, schema : Schemas]
Passes == UNION { [1..n -> SynthesisCalls] : n \in 1..MaxCalls }

InitSynth ==
    /\ RtInit
    /\ ChanIdle
    /\ desc \in Passes
    /\ arg = 0
    /\ ret = [done |-> FALSE, val |-> [gen |-> NewGen, types |-> <<>>]]

\* the generator synthesizes the next schema of the pass
Synthesize ==
    /\ arg < Len(desc)
    /\ LET out == DetermineType(desc[arg + 1].type_name, desc[arg + 1].schema, ret.val.gen)
       IN ret' = [done |-> arg + 1 = Len(desc),
                  val |-> [gen |-> out.gen, types |-> Append(ret.val.types, out.type)]]
    /\ arg' = arg + 1
    /\ UNCHANGED desc
    /\ UNCHANGED chan_vars
    /\ UNCHANGED rt_vars

NextSynth == Synthesize

SpecSynth == InitSynth /\ [][NextSynth]_vars


\* a schema that yields a named type: an enum, or an object none of whose
\* keys is a placeholder
Claims(schema) ==
    \/ schema.type = "string" /\ schema.enum # <<>>
    \/ /\ schema.type = "object"
       /\ \A k \in DOMAIN schema.properties : ~IsPlaceholder(schema.properties[k].key)

\* the emitted type has the shape of the schema: the enum's values, or the
\* record's keys with their required marks
HasShape(emitted, schema) ==
    IF schema.type = "string"
    THEN /\ emitted.kind = "enum"
         /\ [k \in DOMAIN emitted.values |-> emitted.values[k].rename] = schema.enum
    ELSE /\ emitted.kind = "struct"
         /\ [k \in DOMAIN emitted.tokens |-> WireKey(emitted.tokens[k].field)]
               = [k \in DOMAIN schema.properties |-> schema.properties[k].key]
         /\ \A k \in DOMAIN emitted.tokens :
               emitted.tokens[k].field.default = (schema.properties[k].key \in schema.required)

HasPlaceholder(schema) ==
    /\ schema.type = "object"
    /\ \E k \in DOMAIN schema.properties : IsPlaceholder(schema.properties[k].key)

\* the type of the value under the first placeholder key, synthesized under
\* the candidate name extended by that key
PlaceholderValueType(call) ==
    LET props == call.schema.properties
        k == CHOOSE k \in DOMAIN props :
                /\ IsPlaceholder(props[k].key)
                /\ \A j \in 1..(k - 1) : ~IsPlaceholder(props[j].key)
    IN CASE props[k].schema = StringSchema -> Primitive("String")
         [] props[k].schema = IntegerSchema -> Primitive("i64")
         [] OTHER -> Named(to_valid_pascal_case(call.type_name \o <<"_">> \o props[k].key))

\* the pass synthesizes its next schema, which has a placeholder key
SynthesizesPlaceholder == arg' = arg + 1 /\ HasPlaceholder(desc[arg + 1].schema)

\* that synthesis returns a map to the value type, emits nothing under the
\* record's name and leaves the name out of the registry
CollapsesToMap ==
    LET name == to_valid_pascal_case(desc[arg + 1].type_name)
        code == ret.val.gen.generated_code
        code_after == ret'.val.gen.generated_code
    IN /\ ret'.val.types[arg + 1] = HashMapOf(PlaceholderValueType(desc[arg + 1]))
       /\ \A j \in (Len(code) + 1)..Len(code_after) : code_after[j].name # name
       /\ name \notin ret'.val.gen.generated_types

FAbsent == [form |-> "absent", members |-> <<>>, items |-> <<>>]
FObject(members) == [form |-> "object", members |-> members, items |-> <<>>]
FList(items) == [form |-> "array", members |-> <<>>, items |-> items]
FText(s) == [form |-> "string", members |-> <<>>, items |-> <<s>>]

\* a fragment: its "$ref", "properties", "required" and "type" fields
Fragment(ref, properties, required, type) ==
    [ref |-> ref, properties |-> properties, required |-> required, type |-> type]
FragmentKeys == <<"ref", "properties", "required", "type">>

\* `properties` as the description writes them: a map from name to schema,
\* or a list of named entries
PropertiesValues ==
    { FAbsent, FObject("a" :> "s1"), FObject("a" :> "s2"), FObject("b" :> "s1"),
      FList(<<"a">>), FList(<<"b">>) }
RequiredValues == { FAbsent, FList(<<"a">>), FList(<<"b">>) }
TypeValues == { FAbsent, FText("object"), FText("string") }

\* the object a resolvable pointer leads to, and the two pointers used
SharedFragment ==
    Fragment(FAbsent, FObject("b" :> "s0"), FList(<<"b">>), FText("object"))
ResolvableRef == FText("#/components/schemas/shared")
UnresolvableRef == FText("#/components/schemas/gone")

Fragments ==
    { Fragment(FAbsent, p, r, t) : p \in PropertiesValues, r \in RequiredValues, t \in TypeValues }
       \cup { Fragment(ResolvableRef, FAbsent, FAbsent, FAbsent),
              Fragment(ResolvableRef, FObject("a" :> "s1"), FAbsent, FText("string")),
              Fragment(UnresolvableRef, FAbsent, FList(<<"a">>), FAbsent) }

\* expand_ref on a fragment: the referenced object extended by the fields
\* beside "$ref"; None (the fragment as it stands) without a resolvable "$ref"
ExpandRef(fragment) ==
    IF fragment.ref = ResolvableRef
    THEN [key \in DOMAIN fragment |->
             IF key = "ref" THEN SharedFragment.ref
             ELSE IF fragment[key] # FAbsent THEN fragment[key] ELSE SharedFragment[key]]
    ELSE fragment

\* the "properties" arm: the accumulated members extended by the value's when
\* both are objects, else the value
PropertiesMerged(acc, value) ==
    IF acc.form = "object" /\ value.form = "object"
    THEN FObject(value.members @@ acc.members)
    ELSE value

\* the "required" arm: the accumulated items followed by the value's when
\* both are arrays, else the value
RequiredMerged(acc, value) ==
    IF acc.form = "array" /\ value.form = "array"
    THEN FList(acc.items \o value.items)
    ELSE value

\* for (key, value) in schema: one field of the fragment folded into acc
FieldMerged(acc, key, value) ==
    IF value = FAbsent THEN acc
    ELSE [acc EXCEPT ![key] =
             CASE key = "properties" -> PropertiesMerged(acc.properties, value)
               [] key = "required" -> RequiredMerged(acc.required, value)
               [] OTHER -> value]

RECURSIVE FieldsMerged(_, _, _)
FieldsMerged(acc, schema, k) ==
    IF k > Len(FragmentKeys) THEN acc
    ELSE FieldsMerged(FieldMerged(acc, FragmentKeys[k], schema[FragmentKeys[k]]), schema, k + 1)

\* all_of.iter().filter_map(as_object).fold(Map::new(), ..)
RECURSIVE MergedAllOf(_, _)
MergedAllOf(all_of, acc) ==
    IF all_of = <<>> THEN acc
    ELSE MergedAllOf(Tail(all_of), FieldsMerged(acc, ExpandRef(Head(all_of)), 1))

EmptyMap == Fragment(FAbsent, FAbsent, FAbsent, FAbsent)

AllOfLists == UNION { [1..n -> Fragments] : n \in 1..MaxFragments }

InitMerge ==
    /\ RtInit
    /\ ChanIdle
    /\ desc \in AllOfLists
    /\ arg = <<>>
    /\ ret = NotRun

\* determine_type meets a schema with this allOf list and merges it
MergeAllOf ==
    /\ ~ret.done
    /\ ret' = [done |-> TRUE, val |-> MergedAllOf(desc, EmptyMap)]
    /\ UNCHANGED << desc, arg >>
    /\ UNCHANGED chan_vars
    /\ UNCHANGED rt_vars

NextMerge == MergeAllOf

SpecMerge == InitMerge /\ [][NextMerge]_vars

\* the property names a `properties` value lists
PropertyNames(value) ==
    IF value.form = "object" THEN DOMAIN value.members
    ELSE {value.items[k] : k \in DOMAIN value.items}

RECURSIVE RequiredConcatenated(_)
RequiredConcatenated(all_of) ==
    IF all_of = <<>> THEN <<>>
    ELSE ExpandRef(Head(all_of)).required.items \o RequiredConcatenated(Tail(all_of))

\* the last fragment that has a type, 0 if none has
LastWithType(all_of) ==
    IF \E k \in DOMAIN all_of : ExpandRef(all_of[k]).type # FAbsent
    THEN CHOOSE k \in DOMAIN all_of :
            /\ ExpandRef(all_of[k]).type # FAbsent
            /\ \A j \in (k + 1)..Len(all_of) : ExpandRef(all_of[j]).type = FAbsent
    ELSE 0

(* ------------------------------------------------------------------ *)
(* C26: the merged schema of an allOf list has the properties of all   *)
(* its fragments (each resolved first if it is a reference), the       *)
(* concatenation of their required lists in order, and for any other   *)
(* field the value of the last fragment that has it.                   *)
(* ------------------------------------------------------------------ *)
C26_AllOfMergedFieldWise ==
    ret.done =>
       /\ PropertyNames(ret.val.properties)
             = UNION { PropertyNames(ExpandRef(desc[k]).properties) : k \in DOMAIN desc }
       /\ ret.val.required.items = RequiredConcatenated(desc)
       /\ ret.val.type = IF LastWithType(desc) = 0 THEN FAbsent
                         ELSE ExpandRef(desc[LastWithType(desc)]).type


(* ------------------------------------------------------------------ *)
(* Notifications between the confirmation and the registration         *)
(* ------------------------------------------------------------------ *)
\* subscribe_raw of c got the success response and the loop has not yet
\* handled c's registration request (not sent yet, or still queued)
AwaitsRegistration(c) ==
    \/ pc[c] = "reg_send"
    \/ pc[c] = "reg_wait" /\ rx[c].st = "empty"

(* ------------------------------------------------------------------ *)
(* C28: no notification is lost between the server's confirmation and  *)
(* the local registration: a notification for the confirmed channel    *)
(* that the loop processes before it handles the caller's registration *)
(* request is kept for the caller's stream.  A notification whose      *)
(* processing changes nothing is kept nowhere, so the claim needs that *)
(* no such step exists while a caller awaits its registration.         *)
(* ------------------------------------------------------------------ *)
C28_NotificationBeforeRegistrationKept ==
    \A c \in Callers :
       loop = "running" /\ AwaitsRegistration(c)
          => ~ENABLED (RecvNotification(op[c].chan, MaxNotif) /\ vars' = vars)


(* ------------------------------------------------------------------ *)
(* Fair runs: the transport does not fail, the server answers every    *)
(* request it receives once, the loop's select! serves each of its     *)
(* event sources, and the runtime polls every task that can go on      *)
(* ------------------------------------------------------------------ *)
\* the server's one response to request i: i was written to the transport
\* and its entry is in the table until the response is handled
Respond(i) ==
    /\ i \in pending_requests
    /\ \/ \E r \in ResultValues : RecvOkResponse(i, r)
       \/ RecvErrorResponse(i)

NextFair ==
    \/ \E c \in Callers, m \in CallMethods : CallStart(c, m)
    \/ \E c \in Callers, ch \in Channels : SubscribeStart(c, ch)
    \/ \E c \in Callers : CallSend(c)
    \/ \E c \in Callers : CallReturn(c)
    \/ \E c \in Callers : RegSend(c)
    \/ \E c \in Callers : SubscribeReturn(c)
    \/ \E c \in Callers : Drop(c)
    \/ \E t \in HeartbeatTypes : RecvHeartbeat(t, TRUE)
    \/ \E ch \in Channels : RecvNotification(ch, MaxNotif)
    \/ \E i \in ResponseIds : Respond(i)
    \/ TakeRequest(TRUE)
    \/ Register

Fairness ==
    /\ \A c \in Callers : WF_vars(CallSend(c)) /\ WF_vars(CallReturn(c))
    /\ WF_vars(TakeRequest(TRUE))
    /\ WF_vars(Register)
    /\ \A i \in ResponseIds : WF_vars(Respond(i))

SpecFair == Init /\ [][NextFair]_vars /\ Fairness

\* call_raw of c is suspended: on the hand-off queue or on its oneshot
Suspended(c) == pc[c] \in {"send", "wait"}

====
